---- MODULE Spec2Model ----
(***************************************************************************)
(* PRD Studio: the document-refinement pipeline.                           *)
(*                                                                         *)
(*   core/version_manager.py   save_version (the version store)            *)
(*   core/gemini_client.py     quick_update_plan, criticize_plan,          *)
(*                             validate_critique_output,                   *)
(*                             criticize_plan_with_validation,             *)
(*                             run_deep_reflection, get_client             *)
(*   legacy/app.py             the session state and its handlers          *)
(*                                                                         *)
(* A text is a sequence of tokens; a token is a piece of text that the     *)
(* code never looks inside of (a paragraph, a section label, a digit run). *)
(* The source's texts are not ASCII, so each token carries an ASCII name   *)
(* and TokLen gives the number of characters of the text it stands for.    *)
(***************************************************************************)
EXTENDS Integers, Sequences, FiniteSets, TLC

-----------------------------------------------------------------------------
(* Bounds of the model *)

\* the longest version store an append may still grow
MaxVersions == 3
\* the largest max_retry criticize_plan_with_validation is invoked with
MaxRetry == 3
\* the number of user turns of one session
MaxTurns == 3
\* the most lines a content given to show_diff has
MaxLines == 2

-----------------------------------------------------------------------------
(* Texts *)

EmptyText == << >>

\* len(text): the number of characters of the text each token stands for
TokLen(tok) ==
    CASE tok = "SecOverall"   -> 4     \* the section label "overall review"
      [] tok = "SecScore"     -> 4     \* the section label "composite score"
      [] tok = "SecPassed"    -> 4     \* the section label "passed checks"
      [] tok = "Not"          -> 1     \* the one character that, put before
                                       \* "passed checks", gives "failed checks"
      [] tok = "SecNext"      -> 5     \* the section label "next actions"
      [] tok = ":"            -> 1
      [] tok = "87"           -> 2
      [] tok = "/"            -> 1
      [] tok = "100"          -> 3
      [] tok = " "            -> 1
      [] tok = "Prose"        -> 12    \* free text of a critique
      [] tok = "PrdA"         -> 24    \* a document
      [] tok = "PrdB"         -> 24    \* another document
      [] tok = "PrdC"         -> 24    \* a refined document
      [] tok = "Note"         -> 8     \* a short document (under 20 characters)
      [] tok = "UpdateFailed" -> 6     \* quick_update_plan's notice prefix
      [] tok = "ReviewFailed" -> 7     \* criticize_plan's notice prefix
      [] tok = "DeepFailed"   -> 9     \* run_deep_reflection's notice prefix
      [] tok = "ServiceError" -> 16    \* str(e) of a failed generation call
      [] tok = "NoApiKey"     -> 22    \* str(e) of get_client's ValueError
      [] OTHER                -> 1

RECURSIVE TextLen(_)
TextLen(text) ==
    IF text = << >> THEN 0 ELSE TokLen(Head(text)) + TextLen(Tail(text))

\* Python's `needle in text`
Contains(text, needle) ==
    \E i \in 0..(Len(text) - Len(needle)) :
        SubSeq(text, i + 1, i + Len(needle)) = needle

\* the content hash: hashlib.md5(content.encode()).hexdigest()[:8].  A digest
\* is a function of the content alone and, being shorter than the content,
\* is not injective; the model keeps both facts and no more (the code never
\* compares hashes).
TokCode(tok) ==
    CASE tok = "PrdA" -> 1
      [] tok = "PrdB" -> 2
      [] tok = "PrdC" -> 3
      [] tok = "Note" -> 4
      [] OTHER        -> 5

RECURSIVE CodeSum(_)
CodeSum(text) ==
    IF text = << >> THEN 0 ELSE TokCode(Head(text)) + CodeSum(Tail(text))

HashSpace == 3

ContentHash(content) == CodeSum(content) % HashSpace

-----------------------------------------------------------------------------
(* core/version_manager.py *)

VersionTypes == {"quick_update", "deep_review", "manual"}

\* the readings of datetime.now(), formatted (line 30)
Times == {"t1", "t2"}

Last(s) == s[Len(s)]

\* a mutant: the version number is the length before the append instead of
\* the length after it
save_version_number_off(vs, version_type, content, note, now) ==
    IF vs # << >> /\ Last(vs).content = content
    THEN [ret |-> FALSE, versions |-> vs]
    ELSE [ret |-> TRUE,
          versions |-> Append(vs, [timestamp      |-> now,
                                   type           |-> version_type,
                                   content        |-> content,
                                   note           |-> note,
                                   hash           |-> ContentHash(content),
                                   word_count     |-> TextLen(content),
                                   version_number |-> Len(vs)])]

\* a mutant: the duplicate check is left out
save_version_no_dedup(vs, version_type, content, note, now) ==
    [ret |-> TRUE,
     versions |-> Append(vs, [timestamp      |-> now,
                              type           |-> version_type,
                              content        |-> content,
                              note           |-> note,
                              hash           |-> ContentHash(content),
                              word_count     |-> TextLen(content),
                              version_number |-> Len(vs) + 1])]

\* a mutant: the duplicate check compares the stored hashes
save_version_hash_dedup(vs, version_type, content, note, now) ==
    IF vs # << >> /\ Last(vs).hash = ContentHash(content)
    THEN [ret |-> FALSE, versions |-> vs]
    ELSE [ret |-> TRUE,
          versions |-> Append(vs, [timestamp      |-> now,
                                   type           |-> version_type,
                                   content        |-> content,
                                   note           |-> note,
                                   hash           |-> ContentHash(content),
                                   word_count     |-> TextLen(content),
                                   version_number |-> Len(vs) + 1])]

\* save_version(versions, version_type, content, note): the value returned
\* and the list as the call leaves it.  now is the reading of datetime.now().
save_version(vs, version_type, content, note, now) ==
    IF vs # << >> /\ Last(vs).content = content
    THEN [ret |-> FALSE, versions |-> vs]
    ELSE [ret |-> TRUE,
          versions |-> Append(vs, [timestamp      |-> now,
                                   type           |-> version_type,
                                   content        |-> content,
                                   note           |-> note,
                                   hash           |-> ContentHash(content),
                                   word_count     |-> TextLen(content),
                                   version_number |-> Len(vs) + 1])]

-----------------------------------------------------------------------------
(* core/version_manager.py: show_diff.  Here a text is a sequence of
   characters; "NL" is the newline, "amp;", "lt;" and "gt;" are the tails of
   the three entities, the names of the two versions and the wrapper tags
   are single tokens. *)

StartsWith(line, prefix) ==
    Len(line) >= Len(prefix) /\ SubSeq(line, 1, Len(prefix)) = prefix

\* the position of the first newline of text, 0 when it has none
FirstNL(text) ==
    IF \E i \in 1..Len(text) : text[i] = "NL"
    THEN CHOOSE i \in 1..Len(text) :
            text[i] = "NL" /\ \A j \in 1..(i - 1) : text[j] # "NL"
    ELSE 0

\* content.splitlines(keepends=True); nl is the place of the first newline
RECURSIVE splitlines(_)
\* a mutant: the lines are taken without their ends (keepends=False)
splitlines_at_drops_ends(content, nl) ==
    IF nl = 0 THEN <<content>>
    ELSE <<SubSeq(content, 1, nl - 1)>>
         \o splitlines(SubSeq(content, nl + 1, Len(content)))
splitlines_at(content, nl) ==
    IF nl = 0 THEN <<content>>
    ELSE <<SubSeq(content, 1, nl)>>
         \o splitlines(SubSeq(content, nl + 1, Len(content)))
splitlines(content) ==
    IF content = << >> THEN << >>
    ELSE splitlines_at(content, FirstNL(content))

\* text.split('\n'); nl is the place of the first newline
RECURSIVE split(_)
split_at(text, nl) ==
    IF nl = 0 THEN <<text>>
    ELSE <<SubSeq(text, 1, nl - 1)>>
         \o split(SubSeq(text, nl + 1, Len(text)))
split(text) == split_at(text, FirstNL(text))

\* '\n'.join(lines)
RECURSIVE join(_)
join(lines) ==
    IF lines = << >> THEN << >>
    ELSE IF Len(lines) = 1 THEN lines[1]
    ELSE lines[1] \o <<"NL">> \o join(Tail(lines))

\* difflib.SequenceMatcher(None, a, b) on fewer than 200 lines, where no
\* line is junk.  Positions count from 0 and ranges are half open, as in
\* Python; a block is <<i, j, size>>.
RECURSIVE MatchSize(_, _, _, _, _, _)
MatchSize(a, b, i, j, ahi, bhi) ==
    IF i < ahi /\ j < bhi /\ a[i + 1] = b[j + 1]
    THEN 1 + MatchSize(a, b, i + 1, j + 1, ahi, bhi)
    ELSE 0

\* the blocks of a[alo:ahi] and b[blo:bhi] that start at each pair of places
MatchesIn(a, b, alo, ahi, blo, bhi) ==
    {<<c[1], c[2], MatchSize(a, b, c[1], c[2], ahi, bhi)>> :
        c \in (alo..(ahi - 1)) \X (blo..(bhi - 1))}

\* block m is no worse than block n: longer, or as long and earlier in a, or
\* as long, at the same place of a, and no later in b
NoWorse(m, n) ==
    \/ m[3] > n[3]
    \/ m[3] = n[3] /\ m[1] < n[1]
    \/ m[3] = n[3] /\ m[1] = n[1] /\ m[2] <= n[2]

Longest(blocks, alo, blo) ==
    IF blocks = {} THEN <<alo, blo, 0>>
    ELSE CHOOSE m \in blocks : \A n \in blocks : NoWorse(m, n)

NonEmptyBlocks(blocks) == {m \in blocks : m[3] > 0}

\* find_longest_match: the longest block, of those the one that starts
\* earliest in a, of those the one that starts earliest in b
find_longest_match(a, b, alo, ahi, blo, bhi) ==
    Longest(NonEmptyBlocks(MatchesIn(a, b, alo, ahi, blo, bhi)), alo, blo)

\* get_matching_blocks, before the closing (len(a), len(b), 0) is added:
\* the longest block m of the range, with the blocks to its left and to its
\* right
RECURSIVE matching_blocks(_, _, _, _, _, _)
blocks_around(a, b, alo, ahi, blo, bhi, m) ==
    IF m[3] = 0 THEN << >>
    ELSE (IF alo < m[1] /\ blo < m[2]
          THEN matching_blocks(a, b, alo, m[1], blo, m[2]) ELSE << >>)
         \o <<m>>
         \o (IF m[1] + m[3] < ahi /\ m[2] + m[3] < bhi
             THEN matching_blocks(a, b, m[1] + m[3], ahi, m[2] + m[3], bhi)
             ELSE << >>)
matching_blocks(a, b, alo, ahi, blo, bhi) ==
    blocks_around(a, b, alo, ahi, blo, bhi,
                  find_longest_match(a, b, alo, ahi, blo, bhi))

Opcode(tag, i1, i2, j1, j2) ==
    [tag |-> tag, i1 |-> i1, i2 |-> i2, j1 |-> j1, j2 |-> j2]

\* the tag of the stretch between the place reached, (i, j), and the next
\* block, which starts at (ai, bj)
gap_tag(i, j, ai, bj) ==
    IF i < ai /\ j < bj THEN "replace"
    ELSE IF i < ai THEN "delete"
    ELSE IF j < bj THEN "insert"
    ELSE ""

\* get_opcodes: the loop over the matching blocks
RECURSIVE opcodes_from(_, _, _)
opcodes_at(blocks, i, j, ai, bj, size) ==
    (IF gap_tag(i, j, ai, bj) # ""
     THEN <<Opcode(gap_tag(i, j, ai, bj), i, ai, j, bj)>> ELSE << >>)
    \o (IF size > 0
        THEN <<Opcode("equal", ai, ai + size, bj, bj + size)>> ELSE << >>)
    \o opcodes_from(Tail(blocks), ai + size, bj + size)
opcodes_from(blocks, i, j) ==
    IF blocks = << >> THEN << >>
    ELSE opcodes_at(blocks, i, j,
                    Head(blocks)[1], Head(blocks)[2], Head(blocks)[3])

get_opcodes(a, b) ==
    opcodes_from(matching_blocks(a, b, 0, Len(a), 0, Len(b))
                 \o <<<<Len(a), Len(b), 0>>>>, 0, 0)

\* the lines of context unified_diff keeps around a change (its default n)
ContextLines == 3

Min(x, y) == IF x <= y THEN x ELSE y
Max(a, b) == IF a >= b THEN a ELSE b

\* an equal run cut down to its first, or to its last, lines of context
head_of(c) ==
    Opcode("equal", c.i1, Min(c.i2, c.i1 + ContextLines),
           c.j1, Min(c.j2, c.j1 + ContextLines))
tail_of(c) ==
    Opcode("equal", Max(c.i1, c.i2 - ContextLines), c.i2,
           Max(c.j1, c.j2 - ContextLines), c.j2)

\* get_grouped_opcodes: the loop over the codes; group is the group being
\* filled
RECURSIVE groups_from(_, _)
groups_from(codes, group) ==
    IF codes = << >>
    THEN IF group # << >> /\ ~(Len(group) = 1 /\ group[1].tag = "equal")
         THEN <<group>> ELSE << >>
    ELSE IF Head(codes).tag = "equal"
            /\ Head(codes).i2 - Head(codes).i1 > ContextLines + ContextLines
    THEN <<Append(group, head_of(Head(codes)))>>
         \o groups_from(Tail(codes), <<tail_of(Head(codes))>>)
    ELSE groups_from(Tail(codes), Append(group, Head(codes)))

\* get_grouped_opcodes: what comes before the loop.  No opcode at all
\* counts as one equal run, and an equal run at either end is cut down to
\* the context.
or_one_equal(codes) ==
    IF codes = << >> THEN <<Opcode("equal", 0, 1, 0, 1)>> ELSE codes
cut_first(codes) ==
    IF codes[1].tag = "equal" THEN <<tail_of(codes[1])>> \o Tail(codes)
    ELSE codes
cut_last(codes) ==
    IF Last(codes).tag = "equal"
    THEN SubSeq(codes, 1, Len(codes) - 1) \o <<head_of(Last(codes))>>
    ELSE codes

\* get_grouped_opcodes(n=3)
get_grouped_opcodes(a, b) ==
    groups_from(cut_last(cut_first(or_one_equal(get_opcodes(a, b)))), << >>)

\* _format_range_unified(start, stop)
format_range_unified(start, stop) ==
    IF stop - start = 1 THEN <<ToString(start + 1)>>
    ELSE IF stop - start = 0 THEN <<ToString(start), ",", "0">>
    ELSE <<ToString(start + 1), ",", ToString(stop - start)>>

Prefixed(mark, lines) == [i \in 1..Len(lines) |-> <<mark>> \o lines[i]]

\* the lines unified_diff gives for one opcode
opcode_lines(a, b, c) ==
    IF c.tag = "equal" THEN Prefixed(" ", SubSeq(a, c.i1 + 1, c.i2))
    ELSE (IF c.tag \in {"replace", "delete"}
          THEN Prefixed("-", SubSeq(a, c.i1 + 1, c.i2)) ELSE << >>)
         \o (IF c.tag \in {"replace", "insert"}
             THEN Prefixed("+", SubSeq(b, c.j1 + 1, c.j2)) ELSE << >>)

RECURSIVE group_lines(_, _, _)
group_lines(a, b, group) ==
    IF group = << >> THEN << >>
    ELSE opcode_lines(a, b, Head(group)) \o group_lines(a, b, Tail(group))

\* the '@@ -r1 +r2 @@' line of a group and the lines of its opcodes
hunk(a, b, group) ==
    << <<"@", "@", " ", "-">>
       \o format_range_unified(group[1].i1, Last(group).i2)
       \o <<" ", "+">>
       \o format_range_unified(group[1].j1, Last(group).j2)
       \o <<" ", "@", "@">> >>
    \o group_lines(a, b, group)

RECURSIVE hunks(_, _, _)
hunks(a, b, groups) ==
    IF groups = << >> THEN << >>
    ELSE hunk(a, b, Head(groups)) \o hunks(a, b, Tail(groups))

\* a mutant: the two header lines are given even when no group follows
with_header_always(a, b, groups) ==
    << <<"-", "-", "-", " ", "OldVersion">>,
       <<"+", "+", "+", " ", "NewVersion">> >>
    \o hunks(a, b, groups)

\* unified_diff: the two header lines come before the first group, so none
\* is given when there is no group
with_header(a, b, groups) ==
    IF groups = << >> THEN << >>
    ELSE << <<"-", "-", "-", " ", "OldVersion">>,
            <<"+", "+", "+", " ", "NewVersion">> >>
         \o hunks(a, b, groups)

\* list(difflib.unified_diff(a, b, fromfile=..., tofile=..., lineterm=''))
unified_diff(a, b) == with_header(a, b, get_grouped_opcodes(a, b))

\* text.replace(tok, by)
RECURSIVE Replace(_, _, _)
Replace(text, tok, by) ==
    IF text = << >> THEN << >>
    ELSE (IF Head(text) = tok THEN by ELSE <<Head(text)>>)
         \o Replace(Tail(text), tok, by)

\* a mutant: the ampersand is replaced last
escape_ampersand_last(line) ==
    Replace(Replace(Replace(line, "<", <<"&", "lt;">>),
                    ">", <<"&", "gt;">>),
            "&", <<"&", "amp;">>)

\* line 72: the three replacements, the ampersand first
escape(line) ==
    Replace(Replace(Replace(line, "&", <<"&", "amp;">>),
                    "<", <<"&", "lt;">>),
            ">", <<"&", "gt;">>)

\* a mutant: the file header is told by its whole text
line_style_exact_header(line) ==
    IF line \in {<<"-", "-", "-", " ", "OldVersion">>,
                 <<"+", "+", "+", " ", "NewVersion">>} THEN "header"
    ELSE IF StartsWith(line, <<"+">>) THEN "add"
    ELSE IF StartsWith(line, <<"-">>) THEN "del"
    ELSE IF StartsWith(line, <<"@", "@">>) THEN "hunk"
    ELSE "plain"

\* lines 73-82: the treatment a line of the diff text gets
line_style(line) ==
    IF StartsWith(line, <<"+", "+", "+">>)
       \/ StartsWith(line, <<"-", "-", "-">>) THEN "header"
    ELSE IF StartsWith(line, <<"+">>) THEN "add"
    ELSE IF StartsWith(line, <<"-">>) THEN "del"
    ELSE IF StartsWith(line, <<"@", "@">>) THEN "hunk"
    ELSE "plain"

SpanOpen(style) == "<span " \o style \o ">"

\* lines 74-82: the escaped line in the span of its treatment
wrapped(style, escaped_line) ==
    IF style = "plain" THEN escaped_line
    ELSE <<SpanOpen(style)>> \o escaped_line \o <<"</span>">>

\* lines 72-82: one line of html_lines
html_line(line) == wrapped(line_style(line), escape(line))

Identical == <<"Identical">>

html_lines(lines) == [i \in 1..Len(lines) |-> html_line(lines[i])]

\* lines 63-85: the value returned for diff_text
rendering(diff_text) ==
    IF diff_text = << >> THEN Identical
    ELSE <<"<pre>">> \o join(html_lines(split(diff_text))) \o <<"</pre>">>

\* show_diff(old_content, new_content), lines 50-85
show_diff(old_content, new_content) ==
    rendering(join(unified_diff(splitlines(old_content),
                                splitlines(new_content))))

-----------------------------------------------------------------------------
(* core/gemini_client.py: the pure parts *)

\* required_sections, in the order of the list; "failed checks" is the label
\* "passed checks" with one character before it
required_sections ==
    << <<"SecOverall">>, <<"SecScore">>, <<"SecPassed">>,
       <<"Not", "SecPassed">>, <<"SecNext">> >>

ScoreFormat == <<"ScoreFormat">>

Whitespace == {" ", "NL"}
DigitRuns  == {"87", "100"}
Colons     == {":", "FullColon"}

TokAt(text, i) == IF i \in 1..Len(text) THEN text[i] ELSE "EOT"

\* the first position at or after i that holds no whitespace (\s*)
RECURSIVE SkipWs(_, _)
SkipWs(text, i) ==
    IF TokAt(text, i) \in Whitespace THEN SkipWs(text, i + 1) ELSE i

\* the positions a run of digits starting at i can end before (\d+, which
\* may give back digits)
RECURSIVE DigitEnds(_, _)
DigitEnds(text, i) ==
    IF TokAt(text, i) \in DigitRuns
    THEN {i + 1} \cup DigitEnds(text, i + 1)
    ELSE {}

\* re.search(r'SecScore[：:]\s*(\d+)\s*/\s*100', text) finds a match
score_match(text) ==
    \E i \in 1..Len(text) :
        /\ text[i] = "SecScore"
        /\ TokAt(text, i + 1) \in Colons
        /\ \E e \in DigitEnds(text, SkipWs(text, i + 2)) :
              LET s == SkipWs(text, e) IN
              /\ TokAt(text, s) = "/"
              /\ TokAt(text, SkipWs(text, s + 1)) = "100"

\* a mutant: the check stops at the first section that is missing
MissingFrom_first_only(sections, text) ==
    LET absent == {k \in 1..Len(sections) : ~Contains(text, sections[k])}
    IN IF absent = {} THEN << >>
       ELSE <<sections[CHOOSE k \in absent : \A j \in absent : k <= j]>>

RECURSIVE MissingFrom(_, _)
MissingFrom(sections, text) ==
    IF sections = << >> THEN << >>
    ELSE (IF Contains(text, Head(sections)) THEN << >> ELSE <<Head(sections)>>)
         \o MissingFrom(Tail(sections), text)

\* a mutant: every text validates
validate_accepts_all(critique_text) ==
    [ok |-> TRUE, missing |-> << >>]

\* validate_critique_output(critique_text): (is_valid, the missing items the
\* error message joins)
validate_critique_output(critique_text) ==
    LET missing == MissingFrom(required_sections, critique_text)
                   \o (IF score_match(critique_text) THEN << >>
                       ELSE <<ScoreFormat>>)
    IN [ok |-> missing = << >>, missing |-> missing]

(* The text-generation service.  A generation call either raises or returns
   a response whose text may be empty (None or ""). *)
ValidCritique ==
    <<"SecOverall", "Prose", "SecScore", ":", " ", "87", "/", "100",
      "SecPassed", "Prose", "Not", "SecPassed", "Prose", "SecNext">>
InvalidCritique == <<"SecOverall", "Prose">>
OtherInvalidCritique == <<"Prose">>

\* the outcomes of one generation call: it raises (text is then str(e)), or
\* it returns one of texts
Outcomes(texts) ==
    {[kind |-> "raise", text |-> <<"ServiceError">>]}
    \cup {[kind |-> "text", text |-> t] : t \in texts}

\* what the service may answer to a critique prompt, to a document prompt
\* and to a refine prompt
CritiqueResponses ==
    Outcomes({EmptyText, ValidCritique, InvalidCritique, OtherInvalidCritique})
    \cup {[kind |-> "raise", text |-> <<"Timeout">>]}
PlanResponses   == Outcomes({EmptyText, <<"PrdA">>, <<"PrdB">>})
RefineResponses == Outcomes({EmptyText, <<"PrdC">>})

\* response.text or ""
TextOf(resp) == resp.text

\* a mutant: a failed call yields no notice, only the empty text
quick_update_plan_text_empty_notice(resp) ==
    IF resp.kind = "raise" THEN EmptyText ELSE TextOf(resp)

\* quick_update_plan, lines 202-213: what it returns for the outcome of its
\* generation call
quick_update_plan_text(resp) ==
    IF resp.kind = "raise" THEN <<"UpdateFailed">> \o resp.text
    ELSE TextOf(resp)

\* criticize_plan, lines 221-233
criticize_plan_text(resp) ==
    IF resp.kind = "raise" THEN <<"ReviewFailed">> \o resp.text
    ELSE TextOf(resp)

\* a mutant: a failed refine call keeps the critique that was produced
deep_result_keeps_critique(current_plan, critique_text, resp) ==
    IF resp.kind = "raise" THEN <<critique_text, current_plan>>
    ELSE <<critique_text,
           IF TextOf(resp) = EmptyText THEN current_plan ELSE TextOf(resp)>>

\* a mutant: an empty refine response is returned as it is
deep_result_keeps_empty(current_plan, critique_text, resp) ==
    IF resp.kind = "raise"
    THEN <<<<"DeepFailed">> \o resp.text, current_plan>>
    ELSE <<critique_text, TextOf(resp)>>

\* run_deep_reflection, lines 317-331: what it returns for the outcome of
\* the refine generation call
deep_result(current_plan, critique_text, resp) ==
    IF resp.kind = "raise"
    THEN <<<<"DeepFailed">> \o resp.text, current_plan>>
    ELSE <<critique_text,
           IF TextOf(resp) = EmptyText THEN current_plan ELSE TextOf(resp)>>

-----------------------------------------------------------------------------
(* State *)

VARIABLES
    \* the environment and the module global of core/gemini_client.py
    api_key,                \* GEMINI_API_KEY is set (core/config.py)
    client,                 \* _client is not None
    \* one invocation of a function of core/gemini_client.py
    op,                     \* the function invoked
    pc,                     \* where its execution stands
    cwv_state,              \* where criticize_plan_with_validation stands
    current_plan,           \* the document passed
    max_retry,              \* criticize_plan_with_validation's max_retry
    status_callback,        \* a status callback was passed
    attempt,                \* the loop variable of line 268
    critique,               \* the local critique
    result,                 \* the value returned: <<text>> or <<text, text>>
    outcome,                \* "none", "returned" or "raised"
    trace,                  \* the calls, notifications and sleeps made so far
    \* st.session_state of legacy/app.py
    versions,
    plan_content,
    critique_log,
    workflow_stage,
    current_version_index,
    messages,
    memory_summary,
    user_turn_count,
    edit_mode,
    \* the last direct call of save_version (not program state)
    last_save,
    \* the last direct call of show_diff (not program state)
    last_diff,
    \* the last subscript of the version list by a caller's index (not
    \* program state)
    last_at,
    \* the last direct call of create_prd_zip (not program state)
    last_zip,
    \* the last call of get_chat_response_stream, with its document context
    \* (not program state)
    last_chat

client_vars  == <<api_key, client>>
engine_vars  == <<op, pc, cwv_state, current_plan, max_retry, status_callback,
                  attempt, critique, result, outcome, trace>>
session_vars == <<versions, plan_content, critique_log, workflow_stage,
                  current_version_index, messages, memory_summary,
                  user_turn_count, edit_mode>>
vars == <<client_vars, engine_vars, session_vars, last_save, last_diff,
          last_at, last_zip, last_chat>>

NoDiff == [called |-> FALSE, old |-> EmptyText, new |-> EmptyText,
           html |-> EmptyText]

NoZip == [called |-> FALSE, prd |-> EmptyText, critique |-> << >>,
          archive |-> << >>]

NoChat == [called |-> FALSE, prd_text |-> EmptyText]

NoAt == [called |-> FALSE, index |-> 0, raised |-> FALSE, record |-> << >>]

NoSave == [called |-> FALSE, type |-> "", content |-> EmptyText, ret |-> FALSE]

\* app.py lines 251-276, and an interpreter that has just imported
\* core/gemini_client.py (line 13)
Init ==
    /\ api_key \in BOOLEAN
    /\ client = FALSE
    /\ op = "none"
    /\ pc = "idle"
    /\ cwv_state = "none"
    /\ current_plan = EmptyText
    /\ max_retry = 0
    /\ status_callback = FALSE
    /\ attempt = 0
    /\ critique = EmptyText
    /\ result = << >>
    /\ outcome = "none"
    /\ trace = << >>
    /\ versions = << >>
    /\ plan_content = EmptyText
    /\ critique_log = EmptyText
    /\ workflow_stage = 0
    /\ current_version_index = -1
    /\ messages = << >>
    /\ memory_summary = EmptyText
    /\ user_turn_count = 0
    /\ edit_mode = FALSE
    /\ last_save = NoSave
    /\ last_diff = NoDiff
    /\ last_at = NoAt
    /\ last_zip = NoZip
    /\ last_chat = NoChat

-----------------------------------------------------------------------------
(* core/gemini_client.py: one invocation, step by step *)

\* max_retry's default, which run_deep_reflection relies on
DefaultMaxRetry == 2

Functions ==
    {"quick_update_plan", "criticize_plan",
     "criticize_plan_with_validation", "run_deep_reflection"}

\* the documents the functions are invoked with
EnginePlans == {<<"PrdA">>, <<"PrdB">>}

NoResponse == [kind |-> "none", text |-> EmptyText]

\* what the trace keeps of a generation call, of a message to the callback
\* and of a wait; input is the prompt of a call where it is looked at
CallEvent(kind, resp) ==
    [ev |-> "call", kind |-> kind, resp |-> resp, input |-> << >>]
NotifyEvent(kind) ==
    [ev |-> "notify", kind |-> kind, resp |-> NoResponse, input |-> << >>]
SleepEvent ==
    [ev |-> "sleep", kind |-> "backoff", resp |-> NoResponse, input |-> << >>]

\* a mutant: the prompt of the refine call leaves the critique out
refine_prompt_plan_only(plan, critique_text) == <<plan, EmptyText>>

\* refine_prompt of lines 308-316: the document and the critique
refine_prompt(plan, critique_text) == <<plan, critique_text>>

RefineEvent(resp, prompt) == [CallEvent("refine", resp) EXCEPT !.input = prompt]

\* get_client() returns a client (lines 19-24): there is one already, or
\* the key is set
get_client_ok == client \/ api_key

\* a mutant: the last attempt is not told apart from the others
cwv_branch_always_retry(is_valid, a, n) ==
    IF is_valid THEN "return_valid" ELSE "retry"

\* a mutant: a valid critique is returned only once no attempt is left
cwv_branch_ignores_valid(is_valid, a, n) ==
    IF a < n - 1 THEN "retry"
    ELSE IF is_valid THEN "return_valid" ELSE "return_last"

\* a mutant: the loop gives up one attempt early
cwv_branch_one_short(is_valid, a, n) ==
    IF is_valid THEN "return_valid"
    ELSE IF a < n - 2 THEN "retry"
    ELSE "return_last"

\* criticize_plan_with_validation, lines 273-283: what attempt number a (from
\* 0) of n does with its critique
cwv_branch(is_valid, a, n) ==
    IF is_valid THEN "return_valid"
    ELSE IF a < n - 1 THEN "retry"
    ELSE "return_last"

\* a call of one of the functions
Invoke(f, plan, n, cb) ==
    /\ pc \in {"idle", "done"}
    /\ op' = f
    /\ current_plan' = plan
    /\ max_retry' = n
    /\ status_callback' = cb
    /\ attempt' = 0
    /\ critique' = EmptyText
    /\ result' = << >>
    /\ outcome' = "none"
    /\ trace' = << >>
    /\ pc' = IF f = "run_deep_reflection" THEN "deep_get_client"
             ELSE "get_client"
    /\ cwv_state' = IF f = "criticize_plan_with_validation" THEN "Pending"
                    ELSE "none"
    /\ UNCHANGED <<client_vars, session_vars, last_save, last_diff,
                   last_at, last_zip, last_chat>>

\* run_deep_reflection, lines 299-304: get_client() before the try, then the
\* call of criticize_plan_with_validation with max_retry's default
DeepGetClient ==
    /\ pc = "deep_get_client"
    /\ IF get_client_ok
       THEN /\ client' = TRUE
            /\ pc' = "get_client"
            /\ cwv_state' = "Pending"
            /\ UNCHANGED <<result, outcome>>
       ELSE /\ outcome' = "raised"
            /\ result' = <<<<"NoApiKey">>>>
            /\ pc' = "done"
            /\ UNCHANGED <<client, cwv_state>>
    /\ UNCHANGED <<api_key, op, current_plan, max_retry, status_callback,
                   attempt, critique, trace, session_vars, last_save,
                   last_diff,
                   last_at, last_zip, last_chat>>

\* get_client() at the head of quick_update_plan (196) and of criticize_plan
\* (218).  Its ValueError is outside the function's own try; inside
\* run_deep_reflection it is raised within the try of line 302.
GetClient ==
    /\ pc = "get_client"
    /\ IF get_client_ok
       THEN /\ client' = TRUE
            /\ pc' = "generate"
            /\ UNCHANGED <<result, outcome>>
       ELSE /\ pc' = "done"
            /\ UNCHANGED client
            /\ IF op = "run_deep_reflection"
               THEN /\ outcome' = "returned"
                    /\ result' = <<<<"DeepFailed", "NoApiKey">>, current_plan>>
               ELSE /\ outcome' = "raised"
                    /\ result' = <<<<"NoApiKey">>>>
    /\ UNCHANGED <<api_key, op, cwv_state, current_plan, max_retry,
                   status_callback, attempt, critique, trace, session_vars,
                   last_save, last_diff,
                   last_at, last_zip, last_chat>>

\* the generation call of quick_update_plan (203-213) or of criticize_plan
\* (222-233), and the function's return
Generate(resp) ==
    /\ pc = "generate"
    /\ IF op = "quick_update_plan"
       THEN /\ resp \in PlanResponses
            /\ trace' = Append(trace, CallEvent("plan", resp))
            /\ result' = <<quick_update_plan_text(resp)>>
            /\ outcome' = "returned"
            /\ pc' = "done"
            /\ UNCHANGED <<critique, cwv_state>>
       ELSE /\ resp \in CritiqueResponses
            /\ trace' = Append(trace, CallEvent("critique", resp))
            /\ IF op = "criticize_plan"
               THEN /\ result' = <<criticize_plan_text(resp)>>
                    /\ outcome' = "returned"
                    /\ pc' = "done"
                    /\ UNCHANGED <<critique, cwv_state>>
               ELSE /\ critique' = criticize_plan_text(resp)
                    /\ cwv_state' = "Validating"
                    /\ pc' = "validate"
                    /\ UNCHANGED <<result, outcome>>
    /\ UNCHANGED <<client_vars, op, current_plan, max_retry, status_callback,
                   attempt, session_vars, last_save, last_diff,
                   last_at, last_zip, last_chat>>

\* criticize_plan_with_validation has returned text: to its caller, or to
\* run_deep_reflection, which goes on to the refine call
CwvReturn(text, state) ==
    /\ cwv_state' = state
    /\ IF op = "run_deep_reflection"
       THEN /\ pc' = "refine"
            /\ UNCHANGED <<result, outcome>>
       ELSE /\ result' = <<text>>
            /\ outcome' = "returned"
            /\ pc' = "done"

\* a mutant: the last attempt falls back without a word to the hook
Validate_silent_fallback ==
    /\ pc = "validate"
    /\ LET v == validate_critique_output(critique)
           b == cwv_branch(v.ok, attempt, max_retry)
       IN CASE b = "return_valid" ->
                 /\ CwvReturn(critique, "Accepted")
                 /\ UNCHANGED trace
            [] b = "retry" ->
                 /\ trace' = IF status_callback
                             THEN Append(trace, NotifyEvent("retry"))
                             ELSE trace
                 /\ cwv_state' = "RetryScheduled"
                 /\ pc' = "sleep"
                 /\ UNCHANGED <<result, outcome>>
            [] b = "return_last" ->
                 /\ UNCHANGED trace
                 /\ CwvReturn(critique, "Exhausted")
    /\ UNCHANGED <<client_vars, op, current_plan, max_retry, status_callback,
                   attempt, critique, session_vars, last_save,
                   last_diff,
                   last_at, last_zip, last_chat>>

\* criticize_plan_with_validation, lines 271-283
Validate ==
    /\ pc = "validate"
    /\ LET v == validate_critique_output(critique)
           b == cwv_branch(v.ok, attempt, max_retry)
       IN CASE b = "return_valid" ->
                 /\ CwvReturn(critique, "Accepted")
                 /\ UNCHANGED trace
            [] b = "retry" ->
                 /\ trace' = IF status_callback
                             THEN Append(trace, NotifyEvent("retry"))
                             ELSE trace
                 /\ cwv_state' = "RetryScheduled"
                 /\ pc' = "sleep"
                 /\ UNCHANGED <<result, outcome>>
            [] b = "return_last" ->
                 /\ trace' = IF status_callback
                             THEN Append(trace, NotifyEvent("final"))
                             ELSE trace
                 /\ CwvReturn(critique, "Exhausted")
    /\ UNCHANGED <<client_vars, op, current_plan, max_retry, status_callback,
                   attempt, critique, session_vars, last_save,
                   last_diff,
                   last_at, last_zip, last_chat>>

\* time.sleep(1) of line 279 and the next round of the loop of line 268; when
\* the range is used up the loop ends and line 285 returns the critique
Sleep ==
    /\ pc = "sleep"
    /\ trace' = Append(trace, SleepEvent)
    /\ attempt' = attempt + 1
    /\ IF attempt + 1 < max_retry
       THEN /\ cwv_state' = "Pending"
            /\ pc' = "get_client"
            /\ UNCHANGED <<result, outcome>>
       ELSE CwvReturn(critique, "Exhausted")
    /\ UNCHANGED <<client_vars, op, current_plan, max_retry, status_callback,
                   critique, session_vars, last_save, last_diff,
                   last_at, last_zip, last_chat>>

\* run_deep_reflection, lines 317-331: the refine call and the return
Refine(resp) ==
    /\ pc = "refine"
    /\ trace' = Append(trace,
                        RefineEvent(resp, refine_prompt(current_plan, critique)))
    /\ result' = deep_result(current_plan, critique, resp)
    /\ outcome' = "returned"
    /\ pc' = "done"
    /\ UNCHANGED <<client_vars, op, cwv_state, current_plan, max_retry,
                   status_callback, attempt, critique, session_vars,
                   last_save, last_diff,
                   last_at, last_zip, last_chat>>

NextEngine ==
    \/ \E plan \in EnginePlans :
          \/ Invoke("quick_update_plan", plan, 0, FALSE)
          \/ Invoke("criticize_plan", plan, 0, FALSE)
          \/ \E n \in 1..MaxRetry, cb \in BOOLEAN :
                Invoke("criticize_plan_with_validation", plan, n, cb)
          \/ \E cb \in BOOLEAN :
                Invoke("run_deep_reflection", plan, DefaultMaxRetry, cb)
    \/ DeepGetClient
    \/ GetClient
    \/ \E resp \in PlanResponses \cup CritiqueResponses : Generate(resp)
    \/ Validate
    \/ Sleep
    \/ \E resp \in RefineResponses : Refine(resp)

SpecEngine == Init /\ [][NextEngine]_vars

-----------------------------------------------------------------------------
(* core/gemini_client.py: the same functions as values, for the handlers of
   legacy/app.py, which call them and go on with what they return *)

\* criticize_plan_with_validation(plan, n) from attempt a on, when the
\* critique calls are answered by resps in turn: lines 268-285
RECURSIVE cwv_text(_, _, _)
cwv_text(resps, n, a) ==
    LET c == criticize_plan_text(resps[a + 1])
        b == cwv_branch(validate_critique_output(c).ok, a, n)
    IN IF b = "retry" /\ a + 1 < n THEN cwv_text(resps, n, a + 1) ELSE c

\* run_deep_reflection(plan) once get_client() has succeeded: lines 302-331
run_deep_reflection_result(plan, resps, refine_resp) ==
    deep_result(plan, cwv_text(resps, DefaultMaxRetry, 0), refine_resp)

-----------------------------------------------------------------------------
(* Properties of core/gemini_client.py, checked under SpecEngine *)

IsCall(e) == e.ev = "call"
IsCritiqueCall(e) == e.ev = "call" /\ e.kind = "critique"
IsRefineCall(e) == e.ev = "call" /\ e.kind = "refine"

Calls         == SelectSeq(trace, IsCall)
CritiqueCalls == SelectSeq(trace, IsCritiqueCall)
RefineCalls   == SelectSeq(trace, IsRefineCall)

\* the text attempt i of the running invocation produced
AttemptText(i) == criticize_plan_text(CritiqueCalls[i].resp)
AttemptValid(i) == validate_critique_output(AttemptText(i)).ok

Cwv == op = "criticize_plan_with_validation"
Deep == op = "run_deep_reflection"
Done == pc = "done"

\* every critique call so far was answered, with a text that does not
\* validate
ServiceAlwaysInvalid ==
    \A i \in 1..Len(CritiqueCalls) :
        /\ CritiqueCalls[i].resp.kind = "text"
        /\ ~AttemptValid(i)

\* C4: with a service handle at hand and a service that answers every call
\* with an invalid critique, criticize_plan_with_validation(plan, n) makes
\* exactly n generation calls, returns the text of the n-th and does not
\* raise.
C4_RetryBound ==
    (Cwv /\ get_client_ok /\ ServiceAlwaysInvalid) =>
        /\ outcome # "raised"
        /\ Len(Calls) <= max_retry
        /\ Done => /\ outcome = "returned"
                   /\ Len(Calls) = max_retry
                   /\ Len(CritiqueCalls) = max_retry
                   /\ result = <<CritiqueCalls[max_retry].resp.text>>

\* max_retry = 2, two different invalid critiques, the second returned
C4_Witness ==
    /\ Cwv /\ Done /\ max_retry = 2
    /\ ServiceAlwaysInvalid
    /\ Len(CritiqueCalls) = 2
    /\ CritiqueCalls[1].resp.text # CritiqueCalls[2].resp.text
    /\ result = <<CritiqueCalls[2].resp.text>>

\* C5: criticize_plan_with_validation returns the text of the first attempt
\* that validates and makes no call after it; it returns an invalid text
\* only when all max_retry attempts were invalid, and then the text of the
\* last attempt; once an attempt was made it does not raise.
C5_FirstValidOrLast ==
    (Cwv \/ Deep) =>
        /\ \A i \in 1..(Len(CritiqueCalls) - 1) : ~AttemptValid(i)
        /\ (Cwv /\ Len(CritiqueCalls) >= 1) => outcome # "raised"
        /\ cwv_state \in {"Accepted", "Exhausted"} =>
              /\ Len(CritiqueCalls) >= 1
              /\ critique = AttemptText(Len(CritiqueCalls))
              /\ (Cwv /\ Done) => result = <<critique>>
              /\ cwv_state = "Accepted" <=> AttemptValid(Len(CritiqueCalls))
              /\ cwv_state = "Exhausted" => Len(CritiqueCalls) = max_retry

\* of three attempts allowed, the second validates and is returned: the
\* third is never made
C5_Witness ==
    /\ Cwv /\ Done /\ max_retry = 3
    /\ Len(Calls) = 2
    /\ ~AttemptValid(1) /\ AttemptValid(2)
    /\ result = <<AttemptText(2)>>

\* C6 (the claim as stated): run_deep_reflection never raises to its caller,
\* whatever fails, the missing credential included.
C6_NeverRaises == Deep => outcome # "raised"

\* the refined document the refine step of the specification gives: the
\* text generated, or the document unchanged when the call fails
refine_as_specified(plan, resp) ==
    IF resp.kind = "raise" \/ TextOf(resp) = EmptyText THEN plan
    ELSE TextOf(resp)

\* the text criticize_plan_with_validation(plan, 2) returned in this
\* invocation of run_deep_reflection
CritiqueReturned ==
    cwv_text([i \in 1..Len(CritiqueCalls) |-> CritiqueCalls[i].resp],
             DefaultMaxRetry, 0)

\* C7 (the claim as stated): run_deep_reflection returns the critique of
\* criticize_plan_with_validation(plan, 2) and the refined document, also
\* when the refine call fails.
C7_AsStated ==
    (Deep /\ Done /\ Len(RefineCalls) = 1) =>
        result = <<CritiqueReturned,
                   refine_as_specified(current_plan, RefineCalls[1].resp)>>

\* C7 (amended): when the refine call returns, the result is the critique of
\* criticize_plan_with_validation(plan, 2) with the refined document (the
\* document itself when the refined text is empty); when the refine call
\* fails, the result is the failure notice with the document unchanged, and
\* the critique is dropped.
C7_Composition ==
    (Deep /\ Done /\ Len(RefineCalls) = 1) =>
        LET r == RefineCalls[1].resp IN
        /\ max_retry = 2
        /\ Len(CritiqueCalls) \in 1..2
        /\ critique = CritiqueReturned
        /\ r.kind = "text" =>
              result = <<CritiqueReturned,
                         refine_as_specified(current_plan, r)>>
        /\ r.kind = "raise" =>
              result = <<<<"DeepFailed">> \o r.text, current_plan>>

\* a valid critique was produced, the refine call failed, and the caller
\* gets the notice in place of the critique
C7_Witness ==
    /\ Deep /\ Done /\ Len(RefineCalls) = 1
    /\ RefineCalls[1].resp.kind = "raise"
    /\ critique = ValidCritique
    /\ result = <<<<"DeepFailed", "ServiceError">>, current_plan>>

\* C8: when the refine call fails or yields an empty text, the document
\* run_deep_reflection returns is the document it was given.
C8_RefineFailureKeepsDocument ==
    (Deep /\ Done /\ Len(RefineCalls) = 1
          /\ (RefineCalls[1].resp.kind = "raise"
              \/ RefineCalls[1].resp.text = EmptyText)) =>
        /\ outcome = "returned"
        /\ Len(result) = 2
        /\ result[2] = current_plan

\* the refine call returned an empty text
C8_Witness ==
    /\ Deep /\ Done /\ Len(RefineCalls) = 1
    /\ RefineCalls[1].resp = [kind |-> "text", text |-> EmptyText]
    /\ result = <<critique, current_plan>>
    /\ current_plan # EmptyText

\* C9: with a service handle at hand, an invocation of quick_update_plan
\* makes exactly one generation call, failed or not, and a failed call gives
\* the failure notice as the value returned.  (Without a handle get_client
\* raises before any call is made: see C6.)
C9_OneCallNoRetry ==
    op = "quick_update_plan" =>
        /\ Len(Calls) <= 1
        /\ (Done /\ get_client_ok) =>
              /\ Len(Calls) = 1
              /\ outcome = "returned"
        /\ (Len(Calls) = 1 /\ Calls[1].resp.kind = "raise") =>
              /\ Done
              /\ outcome = "returned"
              /\ result = <<<<"UpdateFailed">> \o Calls[1].resp.text>>
              /\ result[1] # EmptyText

\* the one call failed and the notice came back
C9_Witness ==
    /\ op = "quick_update_plan" /\ Done
    /\ Len(Calls) = 1
    /\ Calls[1].resp.kind = "raise"
    /\ result = <<<<"UpdateFailed", "ServiceError">>>>

\* C10 (the claim as stated): whatever the service answers (a text, an
\* error, an empty response), each function returns texts none of which is
\* empty, and does not raise.
C10_UsableText ==
    (Done /\ Len(Calls) >= 1) =>
        /\ outcome = "returned"
        /\ \A i \in 1..Len(result) : result[i] # EmptyText

-----------------------------------------------------------------------------
(* core/version_manager.py: the version store under arbitrary appends *)

Note(kind, n) == [kind |-> kind, n |-> n]

\* the contents and notes save_version is called with
StoreContents == {<<"PrdA">>, <<"PrdB">>, <<"Note">>}
StoreNotes    == {Note("none", 0)}

SaveCall(version_type, content, saved) ==
    [called |-> TRUE, type |-> version_type, content |-> content,
     ret |-> saved.ret]

\* one call save_version(versions, version_type, content, note)
StoreAppend(version_type, content, note, now) ==
    LET saved == save_version(versions, version_type, content, note, now) IN
    /\ Len(saved.versions) <= MaxVersions
    /\ versions' = saved.versions
    /\ last_save' = SaveCall(version_type, content, saved)
    /\ UNCHANGED <<client_vars, engine_vars, plan_content, critique_log,
                   workflow_stage, current_version_index, messages,
                   memory_summary, user_turn_count, edit_mode, last_diff,
                   last_at, last_zip, last_chat>>

NextStore ==
    \E version_type \in VersionTypes, content \in StoreContents,
       note \in StoreNotes, now \in Times :
        StoreAppend(version_type, content, note, now)

SpecStore == Init /\ [][NextStore]_vars

\* C1: a call of save_version whose content equals the content of the last
\* record returns False and leaves the length as it was; any other call
\* returns True, makes the store one record longer, and the new record's
\* version_number is the new length.
C1_AppendContract ==
    [][ last_save'.called =>
          IF versions # << >> /\ Last(versions).content = last_save'.content
          THEN /\ last_save'.ret = FALSE
               /\ Len(versions') = Len(versions)
          ELSE /\ last_save'.ret = TRUE
               /\ Len(versions') = Len(versions) + 1
               /\ Last(versions').version_number = Len(versions')
               /\ Last(versions').content = last_save'.content ]_vars

\* the second of two appends of the same content to an empty store has
\* returned False, and the store holds one record
C1_Witness ==
    /\ Len(versions) = 1
    /\ last_save.called /\ last_save.ret = FALSE
    /\ last_save.content = versions[1].content

\* C18: whether an append is suppressed depends on the equality of the
\* contents alone, never on the shortened hash.  A content that differs from
\* the latest record's and has the same hash is appended; an append is
\* suppressed exactly when the content is the latest record's; and records
\* of equal content have equal hashes.
C18_DedupByContentOnly ==
    [][ last_save'.called =>
          /\ (last_save'.ret = FALSE)
                <=> (versions # << >>
                     /\ Last(versions).content = last_save'.content)
          /\ (/\ versions # << >>
              /\ Last(versions).content # last_save'.content
              /\ Last(versions).hash = ContentHash(last_save'.content))
             => /\ last_save'.ret = TRUE
                /\ versions' # versions
                /\ SubSeq(versions', 1, Len(versions)) = versions
                /\ Last(versions').content = last_save'.content
                /\ Last(versions').hash = Last(versions).hash
          /\ \A i, j \in DOMAIN versions' :
                versions'[i].content = versions'[j].content
                   => versions'[i].hash = versions'[j].hash ]_vars

\* a content has been appended on top of a record of another content and
\* of the same hash
C18_Witness ==
    /\ Len(versions) >= 2
    /\ last_save.called /\ last_save.ret = TRUE
    /\ last_save.content = Last(versions).content
    /\ versions[Len(versions) - 1].content # Last(versions).content
    /\ versions[Len(versions) - 1].hash = Last(versions).hash

-----------------------------------------------------------------------------
(* legacy/app.py: the handlers of one session.  A handler runs to its end
   (st.rerun) before the next one starts. *)

\* the memory summary is refreshed when the turn count is a multiple of this
SummaryEvery == 3
\* the deep review button is disabled under this many characters
MinReviewLen == 20

\* what the user types, and what the service answers to each kind of
\* prompt the handlers send
Prompts  == {<<"Ask">>}
Drafts   == {<<"Note">>}
Replies  == {[kind |-> "text", text |-> <<"Reply">>]}
NoSummary == {[kind |-> "raise", text |-> <<"ServiceError">>]}
SessionPlanResponses     == Outcomes({EmptyText, <<"PrdA">>})
SessionCritiqueResponses == {[kind |-> "text", text |-> ValidCritique]}
SessionRefineResponses   == Outcomes({EmptyText, <<"PrdC">>})
\* the readings of the clock within one session
SessionTimes == {"t1"}

\* is_api_key_configured(), core/config.py lines 12-13
is_api_key_configured == api_key

\* lines 36-57: the script stops before any handler when no key is set;
\* and no core function is in the middle of a call
script_runs == is_api_key_configured /\ pc = "idle"

Message(role, content) == [role |-> role, content |-> content]

\* str.strip()
RECURSIVE LStrip(_)
LStrip(text) ==
    IF text # << >> /\ Head(text) \in Whitespace THEN LStrip(Tail(text))
    ELSE text
RECURSIVE RStrip(_)
RStrip(text) ==
    IF text # << >> /\ Last(text) \in Whitespace
    THEN RStrip(SubSeq(text, 1, Len(text) - 1))
    ELSE text
Strip(text) == RStrip(LStrip(text))

\* the assistant message of a chat turn, lines 583-592: the reply streamed,
\* or the error message when get_client or the stream raises
chat_reply(resp) ==
    IF ~get_client_ok THEN <<"ChatFailed", "NoApiKey">>
    ELSE IF resp.kind = "raise" THEN <<"ChatFailed">> \o resp.text
    ELSE TextOf(resp)

\* lines 595-602: the summary after a turn that made the count `count`
summary_after(count, resp) ==
    IF count % SummaryEvery = 0 /\ get_client_ok /\ resp.kind = "text"
    THEN Strip(TextOf(resp))
    ELSE memory_summary

\* a mutant: the new record takes the place of the latest one
SaveVersion_overwrites_latest(version_type, content, note, now) ==
    LET saved == save_version(versions, version_type, content, note, now) IN
    /\ Len(saved.versions) <= MaxVersions
    /\ versions' = IF versions = << >> THEN saved.versions
                    ELSE SubSeq(versions, 1, Len(versions) - 1)
                         \o <<[Last(saved.versions) EXCEPT
                                  !.version_number = Len(versions)]>>

\* save_version_wrapper (lines 281-283) as a handler's last effect on the
\* store; the handler is not taken when the store would outgrow the bound
SaveVersion(version_type, content, note, now) ==
    LET saved == save_version(versions, version_type, content, note, now) IN
    /\ Len(saved.versions) <= MaxVersions
    /\ versions' = saved.versions

NoSaveVersion == versions' = versions

\* a mutant: the document is the context of every chat call
prd_context_always == plan_content

\* the document context of a chat call, line 584
prd_context == IF workflow_stage >= 1 THEN plan_content ELSE EmptyText

\* a mutant: a reply stream that fails leaves the user message unanswered
ChatTurn_unanswered_on_failure(prompt, chat_resp, summary_resp, plan_resp, now) ==
    /\ script_runs
    /\ user_turn_count < MaxTurns
    /\ messages' = messages \o <<Message("user", prompt)>>
                    \o (IF chat_resp.kind = "raise" THEN << >>
                        ELSE <<Message("assistant", chat_reply(chat_resp))>>)
    /\ user_turn_count' = user_turn_count + 1
    /\ memory_summary' = summary_after(user_turn_count + 1, summary_resp)
    /\ workflow_stage' = Max(workflow_stage, 1)
    /\ client' = get_client_ok
    /\ IF get_client_ok
       THEN /\ plan_content' = quick_update_plan_text(plan_resp)
            /\ SaveVersion("quick_update", quick_update_plan_text(plan_resp),
                           Note("chat_round", Len(messages) + 2), now)
       ELSE /\ plan_content' = <<"UpdateFailed", "NoApiKey">>
            /\ NoSaveVersion
    /\ UNCHANGED <<api_key, engine_vars, critique_log, current_version_index,
                   edit_mode, last_save, last_diff,
                   last_at, last_zip>>

\* the chat input handler, lines 575-615 (last_chat is left to the
\* specification: unchanged, or the record of ChatCall)
ChatTurn(prompt, chat_resp, summary_resp, plan_resp, now) ==
    /\ script_runs
    /\ user_turn_count < MaxTurns
    /\ messages' = messages \o <<Message("user", prompt),
                                 Message("assistant", chat_reply(chat_resp))>>
    /\ user_turn_count' = user_turn_count + 1
    /\ memory_summary' = summary_after(user_turn_count + 1, summary_resp)
    /\ workflow_stage' = Max(workflow_stage, 1)
    /\ client' = get_client_ok
    /\ IF get_client_ok
       THEN /\ plan_content' = quick_update_plan_text(plan_resp)
            /\ SaveVersion("quick_update", quick_update_plan_text(plan_resp),
                           Note("chat_round", Len(messages) + 2), now)
       ELSE /\ plan_content' = <<"UpdateFailed", "NoApiKey">>
            /\ NoSaveVersion
    /\ UNCHANGED <<api_key, engine_vars, critique_log, current_version_index,
                   edit_mode, last_save, last_diff,
                   last_at, last_zip>>

\* the call get_chat_response_stream(messages, prd_context, mem_context) of
\* the chat input handler, lines 584-586, as a record of its document context
ChatCall == last_chat' = [called |-> TRUE, prd_text |-> prd_context]

\* the document upload handler, lines 417-464, for a file that could be read
UploadDocument(analysis_resp, plan_resp, now) ==
    /\ script_runs
    /\ messages = << >>
    /\ critique_log' = EmptyText
    /\ client' = get_client_ok
    /\ IF get_client_ok /\ analysis_resp.kind = "text"
       THEN /\ messages' = <<Message("user", <<"Uploaded">>),
                             Message("assistant", analysis_resp.text)>>
            /\ plan_content' = quick_update_plan_text(plan_resp)
            /\ SaveVersion("quick_update", quick_update_plan_text(plan_resp),
                           Note("from_document", 0), now)
       ELSE /\ messages' = << >>
            /\ plan_content' = plan_content
            /\ NoSaveVersion
    /\ UNCHANGED <<api_key, engine_vars, workflow_stage,
                   current_version_index, memory_summary, user_turn_count,
                   edit_mode, last_save, last_diff,
                   last_at, last_zip, last_chat>>

\* the deep review button, lines 625-635; run_deep_reflection's ValueError
\* ends the handler where it is raised
DeepReview(resps, refine_resp, now) ==
    /\ script_runs
    /\ plan_content # EmptyText
    /\ TextLen(plan_content) >= MinReviewLen
    /\ workflow_stage' = 2
    /\ client' = get_client_ok
    /\ IF get_client_ok
       THEN LET r == run_deep_reflection_result(plan_content, resps,
                                                refine_resp) IN
            /\ critique_log' = r[1]
            /\ plan_content' = r[2]
            /\ SaveVersion("deep_review", r[2], Note("deep_review", 0), now)
       ELSE /\ UNCHANGED <<critique_log, plan_content>>
            /\ NoSaveVersion
    /\ UNCHANGED <<api_key, engine_vars, current_version_index, messages,
                   memory_summary, user_turn_count, edit_mode, last_save,
                   last_diff,
                   last_at, last_zip, last_chat>>

\* is_current of lines 343-344, for the record at 0-based index i
is_current(i) ==
    \/ current_version_index = -1 /\ i = Len(versions) - 1
    \/ current_version_index = i

\* the view button of record i (0-based), lines 359-362
ViewVersion(i) ==
    /\ script_runs
    /\ i \in 0..(Len(versions) - 1)
    /\ current_version_index' = i
    /\ plan_content' = versions[i + 1].content
    /\ NoSaveVersion
    /\ UNCHANGED <<client_vars, engine_vars, critique_log, workflow_stage,
                   messages, memory_summary, user_turn_count, edit_mode,
                   last_save, last_diff,
                   last_at, last_zip, last_chat>>

\* a mutant: the record restored is moved to the end of the history
RestoreVersion_moves_record(i, now) ==
    /\ script_runs
    /\ i \in 0..(Len(versions) - 1)
    /\ ~is_current(i)
    /\ plan_content' = versions[i + 1].content
    /\ current_version_index' = -1
    /\ versions' = SubSeq(versions, 1, i)
                    \o SubSeq(versions, i + 2, Len(versions))
                    \o <<[versions[i + 1] EXCEPT !.type = "manual"]>>
    /\ UNCHANGED <<client_vars, engine_vars, critique_log, workflow_stage,
                   messages, memory_summary, user_turn_count, edit_mode,
                   last_save, last_diff,
                   last_at, last_zip, last_chat>>

\* the restore button of record i (0-based), lines 365-371
RestoreVersion(i, now) ==
    /\ script_runs
    /\ i \in 0..(Len(versions) - 1)
    /\ ~is_current(i)
    /\ plan_content' = versions[i + 1].content
    /\ current_version_index' = -1
    /\ SaveVersion("manual", versions[i + 1].content,
                   Note("rollback", versions[i + 1].version_number), now)
    /\ UNCHANGED <<client_vars, engine_vars, critique_log, workflow_stage,
                   messages, memory_summary, user_turn_count, edit_mode,
                   last_save, last_diff,
                   last_at, last_zip, last_chat>>

\* a mutant: the button leaves the document shown as it is
BackToLatest_keeps_document ==
    /\ script_runs
    /\ versions # << >>
    /\ current_version_index # -1
    /\ current_version_index' = -1
    /\ NoSaveVersion
    /\ UNCHANGED <<client_vars, engine_vars, plan_content, critique_log,
                   workflow_stage, messages, memory_summary, user_turn_count,
                   edit_mode, last_save, last_diff, last_at, last_zip, last_chat>>

\* the back-to-latest button, lines 374-379
BackToLatest ==
    /\ script_runs
    /\ versions # << >>
    /\ current_version_index # -1
    /\ current_version_index' = -1
    /\ plan_content' = Last(versions).content
    /\ NoSaveVersion
    /\ UNCHANGED <<client_vars, engine_vars, critique_log, workflow_stage,
                   messages, memory_summary, user_turn_count, edit_mode,
                   last_save, last_diff,
                   last_at, last_zip, last_chat>>

\* a mutant: an index past the end gives the last record
at_clamps(vs, index) ==
    IF index \in 0..(Len(vs) - 1)
    THEN [raised |-> FALSE, record |-> <<vs[index + 1]>>]
    ELSE IF index \in (0 - Len(vs))..(-1)
    THEN [raised |-> FALSE, record |-> <<vs[Len(vs) + index + 1]>>]
    ELSE IF vs # << >> /\ index >= Len(vs)
    THEN [raised |-> FALSE, record |-> <<Last(vs)>>]
    ELSE [raised |-> TRUE, record |-> << >>]

\* versions[index], the subscript of a Python list (lines 686-687 and
\* 768-769): an index below 0 counts from the end, and IndexError is raised
\* past either end
at(vs, index) ==
    IF index \in 0..(Len(vs) - 1)
    THEN [raised |-> FALSE, record |-> <<vs[index + 1]>>]
    ELSE IF index \in (0 - Len(vs))..(-1)
    THEN [raised |-> FALSE, record |-> <<vs[Len(vs) + index + 1]>>]
    ELSE [raised |-> TRUE, record |-> << >>]

\* lines 687-689: the rendering that goes to the page
diff_html(old_idx, new_idx) ==
    show_diff(at(versions, old_idx).record[1].content,
              at(versions, new_idx).record[1].content)

\* the show-differences button, lines 659-690, with the two versions picked
\* in the select boxes (each offers range(len(versions))): a warning, or
\* diff_html, goes to the page and the session state is left as it is
ShowVersionDiff(old_idx, new_idx) ==
    /\ script_runs
    /\ Len(versions) >= 2
    /\ old_idx \in 0..(Len(versions) - 1)
    /\ new_idx \in 0..(Len(versions) - 1)
    /\ old_idx # new_idx =>
          /\ ~at(versions, old_idx).raised
          /\ ~at(versions, new_idx).raised
    /\ UNCHANGED vars

\* the download button, lines 754-777, with the version picked in the
\* select box: the content goes to the download widgets
DownloadVersion(selected_version_idx) ==
    /\ script_runs
    /\ plan_content # EmptyText
    /\ versions # << >>
    /\ selected_version_idx \in 0..(Len(versions) - 1)
    /\ ~at(versions, selected_version_idx).raised
    /\ UNCHANGED vars

\* the confirm button of the clear dialog, lines 554-569
ConfirmClear ==
    /\ script_runs
    /\ messages' = << >>
    /\ plan_content' = EmptyText
    /\ critique_log' = EmptyText
    /\ workflow_stage' = 0
    /\ versions' = << >>
    /\ current_version_index' = -1
    /\ memory_summary' = EmptyText
    /\ user_turn_count' = 0
    /\ UNCHANGED <<client_vars, engine_vars, edit_mode, last_save, last_diff,
                   last_at, last_zip, last_chat>>

\* the edit button, lines 746-750
EditPrd ==
    /\ script_runs
    /\ plan_content # EmptyText
    /\ ~edit_mode
    /\ edit_mode' = TRUE
    /\ NoSaveVersion
    /\ UNCHANGED <<client_vars, engine_vars, plan_content, critique_log,
                   workflow_stage, current_version_index, messages,
                   memory_summary, user_turn_count, last_save, last_diff,
                   last_at, last_zip, last_chat>>

\* the save button of the editor, lines 720-731, with draft in the text area
SaveEdit(draft, now) ==
    /\ script_runs
    /\ plan_content # EmptyText
    /\ edit_mode
    /\ IF draft # plan_content
       THEN /\ SaveVersion("manual", draft, Note("manual_edit", 0), now)
            /\ plan_content' = draft
       ELSE /\ NoSaveVersion
            /\ plan_content' = plan_content
    /\ edit_mode' = FALSE
    /\ UNCHANGED <<client_vars, engine_vars, critique_log, workflow_stage,
                   current_version_index, messages, memory_summary,
                   user_turn_count, last_save, last_diff,
                   last_at, last_zip, last_chat>>

\* the cancel button of the editor, lines 734-737
CancelEdit ==
    /\ script_runs
    /\ plan_content # EmptyText
    /\ edit_mode
    /\ edit_mode' = FALSE
    /\ NoSaveVersion
    /\ UNCHANGED <<client_vars, engine_vars, plan_content, critique_log,
                   workflow_stage, current_version_index, messages,
                   memory_summary, user_turn_count, last_save, last_diff,
                   last_at, last_zip, last_chat>>

Next ==
    \/ \E prompt \in Prompts, chat_resp \in Replies,
          summary_resp \in NoSummary,
          plan_resp \in SessionPlanResponses, now \in SessionTimes :
          ChatTurn(prompt, chat_resp, summary_resp, plan_resp, now)
             /\ UNCHANGED last_chat
    \/ \E analysis_resp \in Replies,
          plan_resp \in SessionPlanResponses, now \in SessionTimes :
          UploadDocument(analysis_resp, plan_resp, now)
    \/ \E r1 \in SessionCritiqueResponses, r2 \in SessionCritiqueResponses,
          refine_resp \in SessionRefineResponses, now \in SessionTimes :
          DeepReview(<<r1, r2>>, refine_resp, now)
    \/ \E i \in 0..(MaxVersions - 1) : ViewVersion(i)
    \/ \E i \in 0..(MaxVersions - 1), now \in SessionTimes :
          RestoreVersion(i, now)
    \/ BackToLatest
    \/ \E old_idx \in 0..(MaxVersions - 1), new_idx \in 0..(MaxVersions - 1) :
          ShowVersionDiff(old_idx, new_idx)
    \/ \E selected_version_idx \in 0..(MaxVersions - 1) :
          DownloadVersion(selected_version_idx)
    \/ ConfirmClear
    \/ EditPrd
    \/ \E draft \in Drafts, now \in SessionTimes : SaveEdit(draft, now)
    \/ CancelEdit

Spec == Init /\ [][Next]_vars

-----------------------------------------------------------------------------
(* Properties of the version store within a session, checked under Spec *)

\* C2: in every state of a session the i-th record of the store (from 1)
\* has version_number i, whatever chat turns, uploads, deep reviews, edits,
\* restores, views and clears led there.
C2_GaplessNumbering ==
    \A i \in 1..Len(versions) : versions[i].version_number = i

\* three records, made by a chat turn, a deep review and a restore
C2_Witness ==
    /\ Len(versions) = 3
    /\ versions[1].type = "quick_update"
    /\ versions[2].type = "deep_review"
    /\ versions[3].note = Note("rollback", 1)
    /\ versions[3].version_number = 3

\* C3: no two adjacent records of the store have the same content.
C3_NoAdjacentDuplicates ==
    \A i \in 1..(Len(versions) - 1) :
        versions[i].content # versions[i + 1].content

\* two chat turns have each called save_version with the document they
\* produced, and the store holds one record: the second call was suppressed
C3_Witness ==
    /\ api_key
    /\ user_turn_count = 2
    /\ Len(messages) = 4
    /\ Len(versions) = 1
    /\ versions[1].content = plan_content

-----------------------------------------------------------------------------
(* core/gemini_client.py: validate_critique_output on its own *)

\* a critique that meets the format with a full-width colon and no blanks
CompactCritique ==
    <<"SecOverall", "SecScore", "FullColon", "100", "/", "100",
      "SecPassed", "Not", "SecPassed", "SecNext">>

\* the texts a critique keeps when pieces of it are left out
RECURSIVE SubTexts(_)
SubTexts(text) ==
    IF text = << >> THEN {<< >>}
    ELSE LET rest == SubTexts(Tail(text))
         IN rest \cup {<<Head(text)>> \o t : t \in rest}

\* the critique texts validate_critique_output is called with
CritiqueTexts == SubTexts(ValidCritique) \cup SubTexts(CompactCritique)

\* one call of validate_critique_output(critique_text) and the pair it
\* returns (lines 241-256); the message is kept as the list it joins
CallValidate(critique_text) ==
    /\ pc = "idle"
    /\ op = "none"
    /\ op' = "validate_critique_output"
    /\ critique' = critique_text
    /\ LET v == validate_critique_output(critique_text)
       IN result' = <<v.ok, v.missing>>
    /\ outcome' = "returned"
    /\ pc' = "done"
    /\ UNCHANGED <<client_vars, cwv_state, current_plan, max_retry,
                   status_callback, attempt, trace, session_vars, last_save,
                   last_diff,
                   last_at, last_zip, last_chat>>

\* one call is looked at
NextValidate ==
    /\ op = "none"
    /\ \E critique_text \in CritiqueTexts : CallValidate(critique_text)

SpecValidate == Init /\ [][NextValidate]_vars

-----------------------------------------------------------------------------
(* Properties of validate_critique_output, checked under SpecValidate *)

Validated == op = "validate_critique_output" /\ pc = "done"

Range(s) == {s[i] : i \in 1..Len(s)}

\* the positions where piece occurs in text
Occurrences(text, piece) ==
    {i \in 1..(Len(text) - Len(piece) + 1) :
        SubSeq(text, i, i + Len(piece) - 1) = piece}

\* text with the n tokens from position i on taken out
RemoveAt(text, i, n) ==
    SubSeq(text, 1, i - 1) \o SubSeq(text, i + n, Len(text))

\* texts with all five labels and a score
CompleteCritiques == {ValidCritique, CompactCritique}

\* the score lines of the complete critiques
ScoreLines ==
    {<<"SecScore", ":", " ", "87", "/", "100">>,
     <<"SecScore", "FullColon", "100", "/", "100">>}

\* C11 (the claim as stated): a critique with the five labels and a score
\* validates with an empty reason; with any one label taken out, validation
\* fails and the reason names that label alone; with the score line taken
\* out, it fails and the reason holds the score-format marker.
C11_AsStated ==
    Validated =>
        /\ critique \in CompleteCritiques => result = <<TRUE, << >> >>
        /\ \A base \in CompleteCritiques, k \in 1..Len(required_sections) :
              \A i \in Occurrences(base, required_sections[k]) :
                 critique = RemoveAt(base, i, Len(required_sections[k])) =>
                     result = <<FALSE, <<required_sections[k]>> >>
        /\ \A base \in CompleteCritiques, line \in ScoreLines :
              \A i \in Occurrences(base, line) :
                 critique = RemoveAt(base, i, Len(line)) =>
                     /\ result[1] = FALSE
                     /\ ScoreFormat \in Range(result[2])

\* the part of C11 the code keeps: the complete critiques validate, taking
\* out "overall review", "failed checks" or "next actions" is reported as
\* that label alone, and taking out the score line is reported with the
\* score-format marker
C11_Kept ==
    Validated =>
        /\ critique \in CompleteCritiques => result = <<TRUE, << >> >>
        /\ \A base \in CompleteCritiques, k \in {1, 4, 5} :
              \A i \in Occurrences(base, required_sections[k]) :
                 critique = RemoveAt(base, i, Len(required_sections[k])) =>
                     result = <<FALSE, <<required_sections[k]>> >>
        /\ \A base \in CompleteCritiques, line \in ScoreLines :
              \A i \in Occurrences(base, line) :
                 critique = RemoveAt(base, i, Len(line)) =>
                     /\ result[1] = FALSE
                     /\ ScoreFormat \in Range(result[2])

\* the heading "passed checks" was taken out of a complete critique and the
\* text still validates, as "failed checks" contains the label
C11_PassedLabelRemoved ==
    /\ Validated
    /\ critique = RemoveAt(ValidCritique, 9, 1)
    /\ ~Contains(RemoveAt(ValidCritique, 9, 1), <<"Prose", "SecPassed">>)
    /\ result = <<TRUE, << >> >>

\* the label "composite score" was taken out and the reason names two items
C11_ScoreLabelRemoved ==
    /\ Validated
    /\ critique = RemoveAt(ValidCritique, 3, 1)
    /\ result = <<FALSE, <<<<"SecScore">>, ScoreFormat>> >>

\* the required sections that critique_text does not contain
AbsentSections(critique_text) ==
    {required_sections[k] : k \in
        {j \in 1..Len(required_sections) :
            ~Contains(critique_text, required_sections[j])}}

\* C12: the reason lists every required section the text does not contain,
\* each once, and the score-format marker exactly when the score pattern
\* finds no match; the text validates exactly when nothing is listed.  The
\* items are fixed by the text alone, whatever the order of the checks.
C12_AllFailuresCollected ==
    Validated =>
        LET expected == AbsentSections(critique)
                        \cup (IF score_match(critique) THEN {}
                              ELSE {ScoreFormat})
        IN /\ Range(result[2]) = expected
           /\ Len(result[2]) = Cardinality(expected)
           /\ result[1] <=> result[2] = << >>
           /\ result[1] <=> expected = {}

\* four sections and the score are missing, and all five are listed
C12_Witness ==
    /\ Validated
    /\ critique = InvalidCritique
    /\ result = <<FALSE, << <<"SecScore">>, <<"SecPassed">>,
                            <<"Not", "SecPassed">>, <<"SecNext">>,
                            ScoreFormat >> >>

-----------------------------------------------------------------------------
(* core/version_manager.py: show_diff on contents drawn from a set *)

\* the lines the contents compared are made of: a word, an empty line, a
\* line that starts with two dashes, a line of two plus signs, and a line
\* with '@@', an entity and the markup characters
DiffLines ==
    {<<"x">>, << >>, <<"-", "-", "x">>, <<"+", "+">>,
     <<"@", "@", "&", "lt;", "<", ">">>}

\* the texts of at most n lines, each ended by a newline
RECURSIVE TerminatedTexts(_)
TerminatedTexts(n) ==
    IF n = 0 THEN {<< >>}
    ELSE {<< >>} \cup {l \o <<"NL">> \o t :
                          l \in DiffLines, t \in TerminatedTexts(n - 1)}

\* the contents show_diff is called with: at most MaxLines lines, the last
\* one with or without its newline
DiffContents ==
    TerminatedTexts(MaxLines)
    \cup {t \o <<"x">> : t \in TerminatedTexts(MaxLines - 1)}

\* one call of show_diff(old_content, new_content)
CallShowDiff(old_content, new_content) ==
    /\ ~last_diff.called
    /\ last_diff' = [called |-> TRUE, old |-> old_content,
                     new |-> new_content,
                     html |-> show_diff(old_content, new_content)]
    /\ UNCHANGED <<client_vars, engine_vars, session_vars, last_save,
                   last_at, last_zip, last_chat>>

\* one call is looked at, from the state the module is imported in
NextDiff ==
    /\ ~last_diff.called
    /\ \E old_content \in DiffContents, new_content \in DiffContents :
          CallShowDiff(old_content, new_content)

SpecDiff == Init /\ [][NextDiff]_vars

-----------------------------------------------------------------------------
(* Properties of show_diff, checked under SpecDiff *)

Diffed == last_diff.called
Rendered == last_diff.called /\ last_diff.html # Identical

\* the lines unified_diff gave for the call
DiffOf == unified_diff(splitlines(last_diff.old), splitlines(last_diff.new))

\* the lines of the rendering, between the two pre tags
RenderedLines ==
    split(SubSeq(last_diff.html, 2, Len(last_diff.html) - 1))

Styles == {"header", "add", "del", "hunk"}

\* the treatment a rendered line was given, and the text it wraps
StyleOf(l) ==
    IF l # << >> /\ \E st \in Styles : Head(l) = SpanOpen(st)
    THEN CHOOSE st \in Styles : Head(l) = SpanOpen(st)
    ELSE "plain"
TextIn(l) ==
    IF StyleOf(l) = "plain" THEN l ELSE SubSeq(l, 2, Len(l) - 1)

StripNL(line) ==
    IF line # << >> /\ Last(line) = "NL"
    THEN SubSeq(line, 1, Len(line) - 1) ELSE line

Map(F(_), seq) == [i \in 1..Len(seq) |-> F(seq[i])]

\* the rendered lines given treatment st, without their first character
Shown(st) ==
    LET Is(l) == StyleOf(l) = st
        Body(l) == Tail(TextIn(l))
    IN Map(Body, SelectSeq(RenderedLines, Is))

\* the lines the unified diff reports with mark ("+" added, "-" removed),
\* as they read once escaped
Reported(mark) ==
    LET Is(e) == Head(e) = mark
        Body(e) == escape(StripNL(Tail(e)))
    IN Map(Body, SelectSeq(SubSeq(DiffOf, 3, Len(DiffOf)), Is))

\* C13: show_diff(X, X) is the "no differences" sentinel for every text X,
\* the empty text included.
C13_SameTextNoDifferences ==
    (Diffed /\ last_diff.old = last_diff.new) => last_diff.html = Identical

\* a text of two lines was compared with itself
C13_Witness ==
    /\ Diffed
    /\ last_diff.old = <<"x", "NL", "-", "-", "x", "NL">>
    /\ last_diff.new = last_diff.old
    /\ last_diff.html = Identical

\* the empty text was compared with itself
C13_WitnessEmpty ==
    Diffed /\ last_diff.old = << >> /\ last_diff.new = << >>
           /\ last_diff.html = Identical

\* C14 (the claim as stated): the lines rendered as additions are, without
\* their '+', the lines the unified diff reports as added, in that order,
\* and the lines rendered as removals are, without their '-', the lines
\* reported as removed, whatever the lines begin with.
C14_AsStated ==
    Rendered => /\ Shown("add") = Reported("+")
                /\ Shown("del") = Reported("-")

\* the part of C14 the code keeps: it holds when no changed line begins
\* with two dashes or two plus signs
C14_Kept ==
    (Rendered
       /\ \A i \in 3..Len(DiffOf) :
             /\ ~StartsWith(DiffOf[i], <<"-", "-", "-">>)
             /\ ~StartsWith(DiffOf[i], <<"+", "+", "+">>)) =>
        /\ Shown("add") = Reported("+")
        /\ Shown("del") = Reported("-")

\* a removed line that begins with two dashes is rendered as a file header
C14_RemovedLineAsHeader ==
    /\ Rendered
    /\ last_diff.old = <<"-", "-", "x", "NL">>
    /\ last_diff.new = << >>
    /\ Reported("-") = <<<<"-", "-", "x">>>>
    /\ Shown("del") = << >>
    /\ Len(Shown("header")) = 3

\* entities read back as the characters they stand for
RECURSIVE Unescape(_)
Unescape(text) ==
    IF text = << >> THEN << >>
    ELSE IF StartsWith(text, <<"&", "amp;">>)
         THEN <<"&">> \o Unescape(SubSeq(text, 3, Len(text)))
    ELSE IF StartsWith(text, <<"&", "lt;">>)
         THEN <<"<">> \o Unescape(SubSeq(text, 3, Len(text)))
    ELSE IF StartsWith(text, <<"&", "gt;">>)
         THEN <<">">> \o Unescape(SubSeq(text, 3, Len(text)))
    ELSE <<Head(text)>> \o Unescape(Tail(text))

\* C15: in a rendering that is not the sentinel no '<' or '>' stands
\* outside the wrapper tags, every '&' opens one of the three entities, and
\* the text of the lines, read back once, is the diff text: each character
\* was escaped exactly once.
C15_MarkupEscaped ==
    Rendered =>
        /\ \A i \in 1..Len(last_diff.html) :
              /\ last_diff.html[i] \notin {"<", ">"}
              /\ last_diff.html[i] = "&" =>
                    /\ i < Len(last_diff.html)
                    /\ last_diff.html[i + 1] \in {"amp;", "lt;", "gt;"}
        /\ Map(Unescape, Map(TextIn, RenderedLines)) = split(join(DiffOf))

\* an added line holds a literal '&lt;' and the three characters; the
\* rendering holds '&amp;lt;', '&lt;' and '&gt;'
C15_Witness ==
    /\ Rendered
    /\ last_diff.old = << >>
    /\ last_diff.new = <<"@", "@", "&", "lt;", "<", ">", "NL">>
    /\ Contains(last_diff.html,
                <<"+", "@", "@", "&", "amp;", "lt;", "&", "lt;", "&", "gt;">>)

-----------------------------------------------------------------------------
(* Properties of the session's restore and of its history, checked under
   Spec *)

IsPrefix(s, t) == Len(s) <= Len(t) /\ SubSeq(t, 1, Len(s)) = s

\* the step is the restore of record i
RestoreOf(i) == \E now \in SessionTimes : RestoreVersion(i, now)

\* C16 (the claim as stated): the restore of a record that is not the one
\* shown adds a record of type manual with the content of the record
\* restored and leaves the records there were as they are, also when that
\* content is the content of the latest record.
C16_AsStated ==
    [][ \A i \in 0..(MaxVersions - 1) :
          RestoreOf(i) =>
             /\ IsPrefix(versions, versions')
             /\ Len(versions') = Len(versions) + 1
             /\ Last(versions').type = "manual"
             /\ Last(versions').content = versions[i + 1].content ]_vars

\* C16 (amended): the restore leaves the records there were as they are and
\* makes the content of the record restored the document; it adds a record
\* of type manual with that content, numbered with the new length, unless
\* the content is the content of the latest record, and then it adds none.
C16_RestoreAppends ==
    [][ \A i \in 0..(MaxVersions - 1) :
          RestoreOf(i) =>
             /\ IsPrefix(versions, versions')
             /\ plan_content' = versions[i + 1].content
             /\ IF versions[i + 1].content = Last(versions).content
                THEN versions' = versions
                ELSE /\ Len(versions') = Len(versions) + 1
                     /\ Last(versions').type = "manual"
                     /\ Last(versions').content = versions[i + 1].content
                     /\ Last(versions').version_number = Len(versions')
       ]_vars

\* the first record has been restored on top of a second one
C16_Witness ==
    /\ Len(versions) = 3
    /\ versions[3].type = "manual"
    /\ versions[3].note = Note("rollback", 1)
    /\ versions[3].content = versions[1].content
    /\ versions[2].content # versions[1].content
    /\ plan_content = versions[1].content
    /\ current_version_index = -1

\* a record that is not the one shown holds the content of the latest
\* record: its restore adds nothing
C16_OlderRecordEqualsLatest ==
    /\ Len(versions) = 3
    /\ versions[1].content = versions[3].content
    /\ ~is_current(0)

\* C17: the store is append-only.  A step of any handler other than the
\* session clear leaves the records there were, field for field and in
\* their order, as a prefix of the store, and adds at most one record;
\* records go away only all together, by the session clear.
C17_AppendOnly ==
    [][ \/ /\ IsPrefix(versions, versions')
           /\ Len(versions') <= Len(versions) + 1
        \/ /\ ConfirmClear
           /\ versions' = << >> ]_vars

\* three records were appended by a chat turn, an edit and a restore, and
\* the first one is being viewed
C17_Witness ==
    /\ Len(versions) = 3
    /\ versions[1].type = "quick_update"
    /\ versions[2].type = "manual"
    /\ versions[3].note = Note("rollback", 1)
    /\ current_version_index = 0
    /\ plan_content = versions[1].content

\* the generation call of the step has failed
Failed(resp) == resp.kind = "raise"

\* the step is a chat turn, or an upload, whose call for the document failed
FailedUpdate ==
    \E plan_resp \in {r \in SessionPlanResponses : Failed(r)},
       now \in SessionTimes :
       \/ \E prompt \in Prompts, chat_resp \in Replies,
             summary_resp \in NoSummary :
             ChatTurn(prompt, chat_resp, summary_resp, plan_resp, now)
       \/ \E analysis_resp \in Replies :
             UploadDocument(analysis_resp, plan_resp, now)

\* the step is a deep review whose refine call failed
FailedReview ==
    \E r1 \in SessionCritiqueResponses, r2 \in SessionCritiqueResponses,
       refine_resp \in {r \in SessionRefineResponses : Failed(r)},
       now \in SessionTimes :
       DeepReview(<<r1, r2>>, refine_resp, now)

\* the failure notice of quick_update_plan is never appended
C19_NoticeDiscarded == [][FailedUpdate => versions' = versions]_vars

\* the original a failed deep review gives back is never appended
C19_OriginalDiscarded == [][FailedReview => versions' = versions]_vars

\* C19 (the claim as stated): the document of a failed generation, be it
\* the failure notice of the update of the document or the original a
\* failed deep review gives back, is never appended to the store.
C19_AsStated ==
    [][(FailedUpdate \/ FailedReview) => versions' = versions]_vars

\* the failure notice is the content of the latest record
C19_NoticeIsARecord ==
    /\ versions # << >>
    /\ Last(versions).type = "quick_update"
    /\ StartsWith(Last(versions).content, <<"UpdateFailed">>)

-----------------------------------------------------------------------------
(* The subscript versions[index] for any index a caller may hand over,
   on the stores save_version builds *)

LookupIndices == (0 - MaxVersions - 1)..(MaxVersions + 1)

\* versions[index] by a caller with no handler around it, as at lines
\* 687-688 and 769-770: the record is the caller's, or IndexError is
\* raised to it
Lookup(index) ==
    /\ last_at' = [called |-> TRUE, index |-> index,
                   raised |-> at(versions, index).raised,
                   record |-> at(versions, index).record]
    /\ UNCHANGED <<client_vars, engine_vars, session_vars, last_save,
                   last_diff, last_zip, last_chat>>

NextLookup ==
    \/ \E content \in StoreContents, now \in SessionTimes :
          StoreAppend("manual", content, Note("none", 0), now)
    \/ \E index \in LookupIndices : Lookup(index)

SpecLookup == Init /\ [][NextLookup]_vars

-----------------------------------------------------------------------------
(* Properties of the subscript, checked under SpecLookup *)

\* C20 (the claim as stated): the lookup by an index below 0, or at or
\* above the length of the store, fails and gives no record, and the store
\* is left as it is.
C20_AsStated ==
    [][ \A index \in LookupIndices :
          (Lookup(index) /\ (index < 0 \/ index >= Len(versions)))
             => /\ last_at'.raised
                /\ last_at'.record = << >>
                /\ versions' = versions ]_vars

\* C20 (amended): the lookup by an index at or above the length of the
\* store, or below minus the length, fails and gives no record, whatever the
\* index when the store is empty; the lookup by an index from minus the
\* length to -1 gives the record at that place counted from the end; the
\* store is left as it is.
C20_LookupOutOfRange ==
    [][ \A index \in LookupIndices :
          Lookup(index) =>
             /\ versions' = versions
             /\ (index >= Len(versions) \/ index < 0 - Len(versions))
                   => /\ last_at'.raised
                      /\ last_at'.record = << >>
             /\ (index < 0 /\ index >= 0 - Len(versions))
                   => /\ ~last_at'.raised
                      /\ last_at'.record
                            = <<versions[Len(versions) + index + 1]>> ]_vars

\* the lookup at the length of a store of two records has failed
C20_Witness ==
    /\ Len(versions) = 2
    /\ last_at.called /\ last_at.index = 2
    /\ last_at.raised /\ last_at.record = << >>

\* the lookup at -1 has given the latest record, and the lookup on the empty
\* store has failed
C20_NegativeIndexGivesRecord ==
    /\ Len(versions) = 2
    /\ last_at.called /\ last_at.index = -1
    /\ ~last_at.raised /\ last_at.record = <<versions[2]>>

C20_EmptyStoreFails ==
    /\ versions = << >>
    /\ last_at.called /\ last_at.index = 0 /\ last_at.raised

-----------------------------------------------------------------------------
(* core/utils.py: create_prd_zip.  A text is a sequence of characters, as
   for show_diff, with "BQ" for the backquote; the head and the foot of the
   html template are single tokens, and an archive is the sequence of its
   entries. *)

MaxZipLen == 2

\* convert_markdown_to_html(md_content, title), lines 9-75; now is the
\* reading of time.strftime
convert_markdown_to_html(md_content, title, now) ==
    <<"HtmlHead", title>> \o Replace(md_content, "NL", <<"<br>">>)
    \o <<"HtmlFoot", now>>

\* convert_markdown_to_txt(md_content), lines 78-80
convert_markdown_to_txt(md_content) ==
    Replace(Replace(Replace(md_content, "#", << >>), "*", << >>),
            "BQ", << >>)

Entry(name, data) == [name |-> name, data |-> data]

\* critique_content is << >> for None and <<text>> for a text; a text is
\* true when it is not empty
Truthy(critique_content) ==
    critique_content # << >> /\ critique_content[1] # EmptyText

\* a mutant: the report is written whenever one is given, empty or not
create_prd_zip_if_given(prd_content, critique_content, now) ==
    << Entry("prd.md", prd_content),
       Entry("prd.html", convert_markdown_to_html(prd_content, "PRD", now)),
       Entry("prd.txt", convert_markdown_to_txt(prd_content)) >>
    \o (IF critique_content # << >>
        THEN << Entry("critique.md", critique_content[1]),
                Entry("critique.html",
                      convert_markdown_to_html(critique_content[1],
                                               "CtoReview", now)) >>
        ELSE << >>)

\* create_prd_zip(prd_content, critique_content), lines 83-108: the entries
\* of the archive returned, in the order they are written
create_prd_zip(prd_content, critique_content, now) ==
    << Entry("prd.md", prd_content),
       Entry("prd.html", convert_markdown_to_html(prd_content, "PRD", now)),
       Entry("prd.txt", convert_markdown_to_txt(prd_content)) >>
    \o (IF Truthy(critique_content)
        THEN << Entry("critique.md", critique_content[1]),
                Entry("critique.html",
                      convert_markdown_to_html(critique_content[1],
                                               "CtoReview", now)) >>
        ELSE << >>)

RECURSIVE TextsUpTo(_)
TextsUpTo(n) ==
    IF n = 0 THEN {<< >>}
    ELSE TextsUpTo(n - 1)
         \cup {Append(t, c) : t \in {u \in TextsUpTo(n - 1) : Len(u) = n - 1},
                              c \in {"x", "#", "BQ", "NL"}}

ZipTexts == TextsUpTo(MaxZipLen)

\* None, or a text
ZipCritiques == {<< >>} \cup {<<t>> : t \in ZipTexts}

\* one call create_prd_zip(prd_content, critique_content), as download_zip
\* makes it (api.py lines 277-280)
CallCreateZip(prd_content, critique_content, now) ==
    /\ last_zip' = [called |-> TRUE, prd |-> prd_content,
                    critique |-> critique_content,
                    archive |-> create_prd_zip(prd_content, critique_content,
                                               now)]
    /\ UNCHANGED <<client_vars, engine_vars, session_vars, last_save,
                   last_diff, last_at, last_chat>>

\* one call is looked at
NextZip ==
    /\ ~last_zip.called
    /\ \E prd_content \in ZipTexts, critique_content \in ZipCritiques,
          now \in Times :
          CallCreateZip(prd_content, critique_content, now)

SpecZip == Init /\ [][NextZip]_vars

-----------------------------------------------------------------------------
(* Properties of create_prd_zip, checked under SpecZip *)

EntryNames(archive) == [i \in 1..Len(archive) |-> archive[i].name]

PrdNames == <<"prd.md", "prd.html", "prd.txt">>

\* C21: the archive of a document alone has the entries prd.md, prd.html
\* and prd.txt and no other; the archive of a document and a report (a
\* report that is given and not empty) has those three and critique.md and
\* critique.html and no other; no name comes twice, and prd.md holds the
\* document as it was given.
C21_ArchiveEntries ==
    last_zip.called =>
       /\ EntryNames(last_zip.archive)
             = IF Truthy(last_zip.critique)
               THEN PrdNames \o <<"critique.md", "critique.html">>
               ELSE PrdNames
       /\ last_zip.archive[1].data = last_zip.prd
       /\ Truthy(last_zip.critique)
             => last_zip.archive[4].data = last_zip.critique[1]

\* a document with markup and a report have been packed
C21_Witness ==
    /\ last_zip.called
    /\ last_zip.prd = <<"#", "x">>
    /\ last_zip.critique = <<<<"BQ", "NL">>>>
    /\ Len(last_zip.archive) = 5
    /\ last_zip.archive[1].data = <<"#", "x">>
    /\ last_zip.archive[3].data = <<"x">>

\* a document has been packed with a report that is the empty text
C21_EmptyReportLeftOut ==
    /\ last_zip.called
    /\ last_zip.critique = <<EmptyText>>
    /\ Len(last_zip.archive) = 3

-----------------------------------------------------------------------------
(* criticize_plan_with_validation as a state machine.  The function is
   sequential code: a statement that is reached is run, a generation call
   returns or fails, and time.sleep(1) ends. *)

SpecEngineLive ==
    /\ SpecEngine
    /\ WF_vars(GetClient)
    /\ WF_vars(\E resp \in PlanResponses \cup CritiqueResponses :
                  Generate(resp))
    /\ WF_vars(Validate)
    /\ WF_vars(Sleep)

CwvTerminal == {"Accepted", "Exhausted"}

\* the arrows of Pending -> Validating -> {Accepted, RetryScheduled ->
\* Pending, Exhausted}
CwvArrows ==
    {<<"Pending", "Validating">>, <<"Validating", "Accepted">>,
     <<"Validating", "RetryScheduled">>, <<"Validating", "Exhausted">>,
     <<"RetryScheduled", "Pending">>}

\* the step is one of a running invocation of the loop
CwvRunning == cwv_state # "none" /\ pc \notin {"idle", "done"}

\* the attempt just validated is invalid
AttemptInvalid == ~validate_critique_output(critique).ok

\* the steps of a running invocation follow the arrows, a terminal state is
\* not left, RetryScheduled is entered after an invalid attempt that is not
\* the last and Exhausted after an invalid attempt that is the last
CwvStep ==
    CwvRunning =>
       /\ cwv_state' = cwv_state \/ <<cwv_state, cwv_state'>> \in CwvArrows
       /\ cwv_state \in CwvTerminal => cwv_state' = cwv_state
       /\ (cwv_state' = "RetryScheduled" /\ cwv_state # "RetryScheduled")
             => AttemptInvalid /\ attempt < max_retry - 1
       /\ (cwv_state' = "Exhausted" /\ cwv_state # "Exhausted")
             => AttemptInvalid /\ attempt = max_retry - 1
       /\ (cwv_state' = "Accepted" /\ cwv_state # "Accepted")
             => ~AttemptInvalid

\* C22: an invocation of criticize_plan_with_validation with max_retry >= 1
\* and a service handle, whose calls each return or fail, follows Pending ->
\* Validating -> {Accepted, RetryScheduled -> Pending, Exhausted}: it makes
\* at most max_retry generation calls, enters RetryScheduled only after an
\* invalid attempt with attempts left and Exhausted only after an invalid
\* last attempt, leaves no terminal state, and in the end is Accepted or
\* Exhausted.
C22_StateMachine ==
    /\ [](cwv_state # "none" => Len(CritiqueCalls) <= max_retry)
    /\ [][CwvStep]_vars
    /\ (cwv_state = "Pending" /\ get_client_ok /\ pc # "done")
          ~> (cwv_state \in CwvTerminal)

\* three attempts were allowed and made, two retries were scheduled, and
\* the invocation stands at Exhausted
C22_Witness ==
    /\ Cwv /\ Done /\ max_retry = 3 /\ attempt = 2
    /\ cwv_state = "Exhausted"
    /\ Len(CritiqueCalls) = 3
    /\ Len(SelectSeq(trace, LAMBDA e : e.ev = "sleep")) = 2

\* what follows attempt i in the trace: nothing when it validates, the
\* retry notification and the wait when it does not and is not the last,
\* the final notification alone when it does not and is the last
AfterAttempt(i) ==
    IF AttemptValid(i) THEN << >>
    ELSE IF i < max_retry THEN <<NotifyEvent("retry"), SleepEvent>>
    ELSE <<NotifyEvent("final")>>

RECURSIVE NotifiedTrace(_)
NotifiedTrace(k) ==
    IF k <= 0 THEN << >>
    ELSE NotifiedTrace(k - 1) \o <<CritiqueCalls[k]>> \o AfterAttempt(k)

IsLoopEvent(e) == ~IsRefineCall(e)

\* the calls, notifications and waits of the loop, in the order they
\* happened
LoopTrace == SelectSeq(trace, IsLoopEvent)

IsSleep(e) == e.ev = "sleep"

\* C23: with a status callback, each invalid attempt that is not the last
\* is followed by one retry notification and then one wait, before the next
\* generation call; the invalid last attempt by one final notification and
\* no wait; a valid attempt by neither.  A finished run of k generation
\* calls has waited k - 1 times.
C23_NotifyThenWait ==
    (cwv_state # "none" /\ status_callback) =>
       /\ IsPrefix(LoopTrace, NotifiedTrace(Len(CritiqueCalls)))
       /\ IsPrefix(NotifiedTrace(Len(CritiqueCalls) - 1), LoopTrace)
       /\ cwv_state \in CwvTerminal =>
             /\ LoopTrace = NotifiedTrace(Len(CritiqueCalls))
             /\ Len(SelectSeq(trace, IsSleep)) = Len(CritiqueCalls) - 1

\* with a callback, two invalid attempts and a valid third: two retry
\* notifications, two waits, no final notification
C23_Witness ==
    /\ Cwv /\ Done /\ status_callback /\ max_retry = 3
    /\ cwv_state = "Accepted"
    /\ Len(CritiqueCalls) = 3
    /\ trace = <<CritiqueCalls[1], NotifyEvent("retry"), SleepEvent,
                 CritiqueCalls[2], NotifyEvent("retry"), SleepEvent,
                 CritiqueCalls[3]>>

\* with a callback, the last attempt allowed is invalid: the final
\* notification ends the trace
C23_FinalFallback ==
    /\ Cwv /\ Done /\ status_callback /\ max_retry = 2
    /\ cwv_state = "Exhausted"
    /\ Len(trace) = 5
    /\ trace[5] = NotifyEvent("final")

-----------------------------------------------------------------------------
(* The order of the generation calls of run_deep_reflection.  The function
   is one thread of calls that block until they are answered, so that a call
   of the trace was issued after the one before it was answered. *)

\* the places of trace that hold a critique call, or the refine call
CritiquePlaces == {i \in 1..Len(trace) : IsCritiqueCall(trace[i])}
RefinePlaces   == {i \in 1..Len(trace) : IsRefineCall(trace[i])}

\* C24: the generation calls of one run_deep_reflection come one after the
\* other: one or two critique calls (never more), then at most one refine
\* call, made only once criticize_plan_with_validation has returned and with
\* the critique it returned in its prompt; no critique call comes after the
\* refine call, and the second critique call is made only after the first
\* was answered with a critique that does not validate.
C24_CallsInSequence ==
    Deep =>
       /\ Len(CritiqueCalls) <= DefaultMaxRetry /\ DefaultMaxRetry = 2
       /\ Len(RefineCalls) <= 1
       /\ Len(Calls) = Len(CritiqueCalls) + Len(RefineCalls)
       /\ \A i \in CritiquePlaces, j \in RefinePlaces : i < j
       /\ Len(CritiqueCalls) = 2 => ~AttemptValid(1)
       /\ pc = "refine" => cwv_state \in CwvTerminal
       /\ Len(RefineCalls) = 1 =>
             /\ Len(CritiqueCalls) >= 1
             /\ cwv_state \in CwvTerminal
             /\ Done
             /\ trace[Len(trace)] = RefineCalls[1]
             /\ RefineCalls[1].input = <<current_plan, CritiqueReturned>>

\* two critique calls, the second one valid, then the refine call with the
\* second critique in its prompt
C24_Witness ==
    /\ Deep /\ Done
    /\ Len(CritiqueCalls) = 2 /\ Len(RefineCalls) = 1
    /\ AttemptValid(2)
    /\ RefineCalls[1].input = <<current_plan, AttemptText(2)>>
    /\ AttemptText(1) # AttemptText(2)

-----------------------------------------------------------------------------
(* legacy/app.py: the memory summary, with a service that answers, or
   fails, the call of update_memory_summary *)

SummaryResponses == Outcomes({EmptyText, <<"SumA">>, <<" ", "SumB">>})

NextMemory ==
    \/ \E prompt \in Prompts, chat_resp \in Replies,
          summary_resp \in SummaryResponses,
          plan_resp \in SessionPlanResponses, now \in SessionTimes :
          ChatTurn(prompt, chat_resp, summary_resp, plan_resp, now)
             /\ UNCHANGED last_chat
    \/ \E analysis_resp \in Replies,
          plan_resp \in SessionPlanResponses, now \in SessionTimes :
          UploadDocument(analysis_resp, plan_resp, now)
    \/ ConfirmClear

SpecMemory == Init /\ [][NextMemory]_vars

\* the user turns of a transcript
IsUserTurn(m) == m.role = "user"
UserTurns(msgs) == Len(SelectSeq(msgs, IsUserTurn))

\* the step is a chat turn in which update_memory_summary, if called, is
\* answered by summary_resp
ChatTurnWith(summary_resp) ==
    \E prompt \in Prompts, chat_resp \in Replies,
       plan_resp \in SessionPlanResponses, now \in SessionTimes :
       ChatTurn(prompt, chat_resp, summary_resp, plan_resp, now)

\* the summary a regeneration answered by resp leaves: the text stripped,
\* or the summary there was when the call fails
Regenerated(resp) ==
    IF get_client_ok /\ resp.kind = "text" THEN Strip(TextOf(resp))
    ELSE memory_summary

\* C25 (the claim as stated): the summary is regenerated in the chat turn
\* that makes the number of user turns of the transcript a multiple of 3,
\* and in no other; that number is the turn count; a regeneration that
\* fails keeps the summary, and the turn is completed; the session clear
\* resets the summary and the count.
C25_AsStated ==
    [][ /\ \A summary_resp \in SummaryResponses :
              ChatTurnWith(summary_resp) =>
                 /\ user_turn_count' = UserTurns(messages')
                 /\ memory_summary'
                       = IF UserTurns(messages') % SummaryEvery = 0
                         THEN Regenerated(summary_resp)
                         ELSE memory_summary
                 /\ Len(messages') = Len(messages) + 2
        /\ ConfirmClear =>
              memory_summary' = EmptyText /\ user_turn_count' = 0 ]_vars

\* by the turn count, the regeneration is as the claim has it
C25_ByTurnCount ==
    [][ /\ \A summary_resp \in SummaryResponses :
              ChatTurnWith(summary_resp) =>
                 /\ user_turn_count' = user_turn_count + 1
                 /\ memory_summary'
                       = IF user_turn_count' % SummaryEvery = 0
                         THEN Regenerated(summary_resp)
                         ELSE memory_summary
                 /\ Len(messages') = Len(messages) + 2
        /\ ConfirmClear =>
              memory_summary' = EmptyText /\ user_turn_count' = 0 ]_vars

\* a transcript that began with an upload holds three user turns, and the
\* turn count is 2
C25_UploadNotCounted ==
    /\ UserTurns(messages) = 3
    /\ user_turn_count = 2
    /\ memory_summary = EmptyText

\* the third chat turn has regenerated the summary
C25_SummaryRegenerated ==
    /\ user_turn_count = 3
    /\ memory_summary = <<"SumB">>

-----------------------------------------------------------------------------
(* Failed critique calls within the retry loop, checked under SpecEngine *)

FailedAttempt(i) == CritiqueCalls[i].resp.kind = "raise"

\* every critique call so far has failed
ServiceAlwaysFails ==
    \A i \in 1..Len(CritiqueCalls) : FailedAttempt(i)

\* C26: criticize_plan turns the failure of its generation call into the
\* failure notice, a text that does not validate, so that the loop takes it
\* for an invalid attempt: the attempt is used up, the loop goes on to the
\* next one while one is left, and with a service that fails every call
\* (and a service handle at hand) criticize_plan_with_validation makes
\* exactly max_retry calls and returns the notice of the last.
C26_FailureIsInvalidAttempt ==
    (Cwv \/ Deep) =>
       /\ \A i \in 1..Len(CritiqueCalls) :
             FailedAttempt(i) =>
                /\ AttemptText(i)
                      = <<"ReviewFailed">> \o CritiqueCalls[i].resp.text
                /\ ~AttemptValid(i)
                /\ i <= max_retry
                /\ (i = Len(CritiqueCalls) /\ i < max_retry)
                      => cwv_state \notin CwvTerminal /\ ~Done
                /\ (i = Len(CritiqueCalls) /\ i = max_retry
                                           /\ pc # "validate")
                      => cwv_state = "Exhausted"
       /\ (Cwv /\ Done /\ get_client_ok /\ ServiceAlwaysFails) =>
             /\ Len(CritiqueCalls) = max_retry
             /\ outcome = "returned"
             /\ result = <<<<"ReviewFailed">>
                           \o CritiqueCalls[max_retry].resp.text>>

\* three calls have failed, the last one otherwise than the first two, and
\* the notice of the last is what comes back
C26_Witness ==
    /\ Cwv /\ Done /\ max_retry = 3
    /\ ServiceAlwaysFails
    /\ Len(CritiqueCalls) = 3
    /\ CritiqueCalls[1].resp.text = <<"ServiceError">>
    /\ CritiqueCalls[3].resp.text = <<"Timeout">>
    /\ result = <<<<"ReviewFailed", "Timeout">>>>

-----------------------------------------------------------------------------
(* The document shown and the latest record, checked under Spec *)

\* the latest record is the one shown
LatestShown == versions # << >> /\ current_version_index = -1

\* C27: whenever the store is not empty and no older record is picked for
\* viewing, the document shown is the content of the latest record, after
\* a chat turn, an upload, a deep review, a saved edit, a restore or the
\* return to the latest record, the append made or suppressed.
C27_LatestIsShown == LatestShown => plan_content = Last(versions).content

\* the first record was viewed and the latest one returned to, over a
\* store of two records
C27_Witness ==
    /\ LatestShown
    /\ Len(versions) = 2
    /\ versions[1].content # versions[2].content
    /\ versions[2].type = "deep_review"
    /\ plan_content = versions[2].content
    /\ workflow_stage = 2

-----------------------------------------------------------------------------
(* show_diff on any two contents, and on the records of the stores
   save_version builds *)

\* the contents of the records: texts that differ by a line, or by the
\* newline of the last line alone
StoreDiffContents == {<< >>, <<"x">>, <<"x", "NL">>, <<"x", "NL", "x", "NL">>}

\* a record is appended, until a comparison is made
AppendForDiff(content, now) ==
    /\ ~last_diff.called
    /\ StoreAppend("manual", content, Note("none", 0), now)

\* lines 686-689: the comparison of two records picked in the select boxes
DiffRecords(old_idx, new_idx) ==
    /\ ~last_diff.called
    /\ Len(versions) >= 2
    /\ old_idx \in 0..(Len(versions) - 1)
    /\ new_idx \in 0..(Len(versions) - 1)
    /\ old_idx # new_idx
    /\ last_diff' = [called |-> TRUE,
                     old |-> at(versions, old_idx).record[1].content,
                     new |-> at(versions, new_idx).record[1].content,
                     html |-> diff_html(old_idx, new_idx)]
    /\ UNCHANGED <<client_vars, engine_vars, session_vars, last_save,
                   last_at, last_zip, last_chat>>

\* one call of show_diff on any two contents
DirectDiff ==
    /\ versions = << >>
    /\ ~last_diff.called
    /\ \E old_content \in DiffContents, new_content \in DiffContents :
          CallShowDiff(old_content, new_content)

NextStoreDiff ==
    \/ \E content \in StoreDiffContents, now \in SessionTimes :
          AppendForDiff(content, now)
    \/ \E old_idx \in 0..(MaxVersions - 1), new_idx \in 0..(MaxVersions - 1) :
          DiffRecords(old_idx, new_idx)
    \/ DirectDiff

SpecStoreDiff == Init /\ [][NextStoreDiff]_vars

-----------------------------------------------------------------------------
(* Properties of show_diff over the store, checked under SpecStoreDiff *)

\* C28: show_diff(A, B) is the 'no differences' text exactly when A and B
\* are the same text; hence in every store save_version builds the
\* comparison of two adjacent records is never that text (while that of two
\* records that are not adjacent can be: C28_Witness).
C28_SentinelIffSame ==
    /\ Diffed => (last_diff.html = Identical
                     <=> last_diff.old = last_diff.new)
    /\ \A i \in 1..(Len(versions) - 1) :
          show_diff(versions[i].content, versions[i + 1].content)
             # Identical

\* the first and the third record of a store hold the same content, and
\* their comparison gives the 'no differences' text
C28_Witness ==
    /\ Len(versions) = 3
    /\ Diffed
    /\ last_diff.old = versions[1].content
    /\ last_diff.new = versions[3].content
    /\ versions[1].content = <<"x", "NL">>
    /\ versions[2].content = <<"x">>
    /\ last_diff.html = Identical

\* two adjacent records that differ by the newline of the last line alone
\* were compared, and differences were rendered
C28_NewlineAloneDiffers ==
    /\ Len(versions) = 2
    /\ Diffed
    /\ last_diff.old = <<"x", "NL">>
    /\ last_diff.new = <<"x">>
    /\ last_diff.html # Identical

-----------------------------------------------------------------------------
(* legacy/app.py: the transcript, with a reply stream that yields a text,
   yields nothing, or fails *)

ChatResponses == Outcomes({EmptyText, <<"Reply">>})

NextTranscript ==
    \/ \E prompt \in Prompts, chat_resp \in ChatResponses,
          summary_resp \in NoSummary,
          plan_resp \in SessionPlanResponses, now \in SessionTimes :
          ChatTurn(prompt, chat_resp, summary_resp, plan_resp, now)
             /\ UNCHANGED last_chat
    \/ \E analysis_resp \in ChatResponses,
          plan_resp \in SessionPlanResponses, now \in SessionTimes :
          UploadDocument(analysis_resp, plan_resp, now)
    \/ ConfirmClear

SpecTranscript == Init /\ [][NextTranscript]_vars

\* the role of the message at place i of a transcript that alternates
RoleAt(i) == IF i % 2 = 1 THEN "user" ELSE "assistant"

\* the step is a chat turn with the prompt typed and the reply stream
\* answered by chat_resp
ChatTurnOf(prompt, chat_resp) ==
    \E summary_resp \in NoSummary, plan_resp \in SessionPlanResponses,
       now \in SessionTimes :
       ChatTurn(prompt, chat_resp, summary_resp, plan_resp, now)

\* the assistant message the claim has for a reply stream: the reply put
\* together, or the error notice when the stream fails
ReplyOrNotice(chat_resp) ==
    IF chat_resp.kind = "raise" THEN <<"ChatFailed">> \o chat_resp.text
    ELSE chat_resp.text

\* C29: after every chat turn and every upload the transcript has an even
\* length and its roles alternate, user first; a chat turn adds the user
\* message and then one assistant message, the reply put together or, when
\* the reply stream fails, the error notice; the messages there are stay as
\* they are, and go only by the session clear.
C29_TranscriptAlternates ==
    /\ [](/\ Len(messages) % 2 = 0
          /\ \A i \in 1..Len(messages) : messages[i].role = RoleAt(i))
    /\ [][ /\ \A prompt \in Prompts, chat_resp \in ChatResponses :
                 ChatTurnOf(prompt, chat_resp) =>
                    messages' = messages
                       \o <<Message("user", prompt),
                            Message("assistant", ReplyOrNotice(chat_resp))>>
           /\ \/ IsPrefix(messages, messages')
              \/ ConfirmClear /\ messages' = << >> ]_vars

\* an upload and two chat turns, the first with a reply stream that failed,
\* the second with one that yielded nothing
C29_Witness ==
    /\ Len(messages) = 6
    /\ messages[1].content = <<"Uploaded">>
    /\ messages[4] = Message("assistant", <<"ChatFailed", "ServiceError">>)
    /\ messages[6] = Message("assistant", EmptyText)

-----------------------------------------------------------------------------
(* legacy/app.py: the workflow stage and the document context of the chat
   call, under the handlers that assign the stage or put another record of
   the store on show *)

NextStage ==
    \/ \E prompt \in Prompts, chat_resp \in Replies,
          summary_resp \in NoSummary,
          plan_resp \in SessionPlanResponses, now \in SessionTimes :
          ChatTurn(prompt, chat_resp, summary_resp, plan_resp, now)
             /\ ChatCall
    \/ \E analysis_resp \in Replies,
          plan_resp \in SessionPlanResponses, now \in SessionTimes :
          UploadDocument(analysis_resp, plan_resp, now)
    \/ \E r1 \in SessionCritiqueResponses, r2 \in SessionCritiqueResponses,
          refine_resp \in SessionRefineResponses, now \in SessionTimes :
          DeepReview(<<r1, r2>>, refine_resp, now)
    \/ \E i \in 0..(MaxVersions - 1) : ViewVersion(i)
    \/ \E i \in 0..(MaxVersions - 1), now \in SessionTimes :
          RestoreVersion(i, now)
    \/ BackToLatest
    \/ ConfirmClear

SpecStage == Init /\ [][NextStage]_vars

\* the step is a chat turn of the session
AChatTurn ==
    \E prompt \in Prompts, chat_resp \in Replies, summary_resp \in NoSummary,
       plan_resp \in SessionPlanResponses, now \in SessionTimes :
       ChatTurn(prompt, chat_resp, summary_resp, plan_resp, now)

\* the step is a deep review of the session
ADeepReview ==
    \E r1 \in SessionCritiqueResponses, r2 \in SessionCritiqueResponses,
       refine_resp \in SessionRefineResponses, now \in SessionTimes :
       DeepReview(<<r1, r2>>, refine_resp, now)

\* C30: the workflow stage is always 0, 1 or 2; a session clear sets it to 0
\* and no other step lowers it; a chat turn leaves it at 1 or more, a deep
\* review at 2; and a chat call is given the document as its context only
\* at a stage of 1 or more (at stage 0 it is given the empty text).
C30_StageNeverDecreases ==
    /\ [](workflow_stage \in {0, 1, 2})
    /\ [][ /\ workflow_stage' = 0 \/ ~ConfirmClear
           /\ workflow_stage' >= workflow_stage \/ ConfirmClear
           /\ \/ /\ workflow_stage' >= 1
                 /\ last_chat'.called
                 /\ last_chat'.prd_text
                       = IF workflow_stage >= 1 THEN plan_content
                         ELSE EmptyText
              \/ ~AChatTurn
           /\ workflow_stage' = 2 \/ ~ADeepReview ]_vars

\* a chat turn after a deep review: the stage is still 2 and the call was
\* given the document
C30_Witness ==
    /\ workflow_stage = 2
    /\ last_chat.called
    /\ last_chat.prd_text # EmptyText
    /\ Len(versions) >= 2
    /\ versions[Len(versions)].type = "quick_update"
    /\ \E i \in 1..(Len(versions) - 1) : versions[i].type = "deep_review"

\* a chat turn after an upload alone: there is a document, the stage was 0
\* and the call was given no context
C30_UploadedDocumentNotPassed ==
    /\ Len(messages) = 4
    /\ messages[1].content = <<"Uploaded">>
    /\ workflow_stage = 1
    /\ Len(versions) >= 1
    /\ versions[1].content # EmptyText
    /\ last_chat.called
    /\ last_chat.prd_text = EmptyText

====
